---- MODULE Spec2Model ----
(***************************************************************************)
(* Model of the INI Config Navigator extension (latest revision of the     *)
(* extension source, src/unnamed/part_003 lines 1029-2816):                *)
(*   ConfigSectionManager  - SectionIndex  (sectionCache, fileHashCache)   *)
(*   FileTokenManager      - TokenIndex    (fileTokenCache, fileHashCache) *)
(*   CacheRefreshManager   - RefreshCoordinator                            *)
(*   DecorationUpdateManager / IniSectionDecorationProvider - rendering    *)
(* and, in its last section, of the earlier revision src/src/extension.ts.*)
(* Text is modelled as sequences of one-character strings, a file as the   *)
(* sequence of its lines (content.split(/\r?\n/)).                         *)
(***************************************************************************)
EXTENDS Integers, Sequences, FiniteSets, TLC

\* ------------------------------------------------------------------------
\* Text helpers
\* ------------------------------------------------------------------------

\* F(a), with a evaluated once and then used as a value (a local const)
Let(F(_), a) == CHOOSE r \in {F(v) : v \in {a}} : TRUE

\* a file that does not exist / cannot be read (fs.readFileSync throws); a file
\* that exists has at least one line
Absent == <<>>

\* String.prototype.trim: whitespace characters of the modelled alphabet
IsSpace(c) == c \in {" ", "\t"}

RECURSIVE TrimLeft(_)
TrimLeft(s) ==
    IF s # <<>> /\ IsSpace(Head(s)) THEN TrimLeft(Tail(s)) ELSE s

RECURSIVE TrimRight(_)
TrimRight(s) ==
    IF s # <<>> /\ IsSpace(s[Len(s)]) THEN TrimRight(SubSeq(s, 1, Len(s) - 1)) ELSE s

Trim(s) == TrimRight(TrimLeft(s))

StartsWith(s, c) == s # <<>> /\ s[1] = c

EndsWith(s, c) == s # <<>> /\ s[Len(s)] = c

\* the backtick character (the lexer has no literal for it)
BackTick == "bq"

\* character codes (String.prototype.charCodeAt) of the modelled alphabet
CharCode(c) ==
    CASE c = "\n" -> 10
      [] c = "\t" -> 9
      [] c = " "  -> 32
      [] c = "\"" -> 34
      [] c = "'"  -> 39
      [] c = "("  -> 40
      [] c = ")"  -> 41
      [] c = "="  -> 61
      [] c = "["  -> 91
      [] c = "]"  -> 93
      [] c = BackTick -> 96
      [] c = "a"  -> 97
      [] c = "b"  -> 98
      [] c = "k"  -> 107
      [] c = "x"  -> 120
      [] c = "y"  -> 121
      [] OTHER    -> 63

\* the file text: the lines joined by "\n" (inverse of split(/\r?\n/))
RECURSIVE JoinLines(_)
JoinLines(lines) ==
    IF Len(lines) = 1 THEN lines[1]
    ELSE lines[1] \o <<"\n">> \o JoinLines(Tail(lines))

\* getFileHash: hash = ((hash << 5) - hash) + char; hash = hash & hash.
\* A 32-bit value is kept as <<high 16 bits, low 16 bits>>.
HashStep(h, code) ==
    Let(LAMBDA lo : << (31 * h[1] + (lo \div 65536)) % 65536, lo % 65536 >>,
        31 * h[2] + code)

RECURSIVE HashFrom(_, _)
HashFrom(h, text) ==
    IF text = <<>> THEN h
    ELSE Let(LAMBDA hash : HashFrom(hash, Tail(text)), HashStep(h, CharCode(Head(text))))

getFileHash(content) == Let(LAMBDA text : HashFrom(<<0, 0>>, text), JoinLines(content))

\* ------------------------------------------------------------------------
\* ConfigSectionManager.scanIniFile: the parse of one file
\* ------------------------------------------------------------------------

\* lines[i].match(/^\[(.+?)\]$/) on the untrimmed line
IsHeader(line) == Len(line) >= 3 /\ line[1] = "[" /\ line[Len(line)] = "]"

HeaderId(line) == SubSeq(line, 2, Len(line) - 1)

\* the inner loop: a trimmed line of the shape [...] ends the content
EndsContent(line) == StartsWith(Trim(line), "[") /\ EndsWith(Trim(line), "]")

RECURSIVE SectionContent(_, _)
SectionContent(lines, j) ==
    IF j > Len(lines) \/ EndsContent(lines[j]) THEN <<>>
    ELSE (IF Trim(lines[j]) # <<>> THEN <<lines[j]>> ELSE <<>>)
         \o SectionContent(lines, j + 1)

\* Map.set on an insertion-ordered map kept as a sequence of entries
MapSet(cache, e) ==
    IF \E k \in 1..Len(cache) : cache[k].id = e.id
    THEN [k \in 1..Len(cache) |-> IF cache[k].id = e.id THEN e ELSE cache[k]]
    ELSE Append(cache, e)

\* the outer loop from line i (1-based here; the stored line number is 0-based)
RECURSIVE ParseFrom(_, _, _, _)
ParseFrom(cache, uri, lines, i) ==
    IF i > Len(lines) THEN cache
    ELSE IF IsHeader(lines[i])
         THEN Let(LAMBDA set : ParseFrom(set, uri, lines, i + 1),
                  MapSet(cache, [id |-> HeaderId(lines[i]), uri |-> uri,
                                 line |-> i - 1,
                                 content |-> SectionContent(lines, i + 1)]))
         ELSE ParseFrom(cache, uri, lines, i + 1)

\* dropping the records owned by uri, then the parse
DropOwned(cache, uri) == SelectSeq(cache, LAMBDA e : e.uri # uri)

ParseIni(cache, uri, lines) ==
    Let(LAMBDA kept : ParseFrom(kept, uri, lines, 1), DropOwned(cache, uri))

\* ------------------------------------------------------------------------
\* FileTokenManager.scanFileTokens: the scan of one file against the id set
\* ------------------------------------------------------------------------

\* file kind by extension (uri.fsPath.endsWith)
Ext(uri) == uri[Len(uri)]

\* does sectionId occur in line at 0-based offset k
OccursAt(line, sectionId, k) ==
    /\ k + Len(sectionId) <= Len(line)
    /\ \A i \in 1..Len(sectionId) : line[k + i] = sectionId[i]

\* line.indexOf(sectionId, searchIndex): the least offset >= searchIndex, or -1
IndexOf(line, sectionId, searchIndex) ==
    LET hits == {k \in searchIndex..(Len(line) - Len(sectionId)) :
                    OccursAt(line, sectionId, k)}
    IN  IF hits = {} THEN -1 ELSE CHOOSE k \in hits : \A m \in hits : k <= m

\* line[i] for a 0-based i, '' outside the line
CharAt(line, i) == IF i >= 0 /\ i < Len(line) THEN line[i + 1] ELSE ""

IsQuote(c) == c \in {"\"", "'"}

IsQuoteTs(c) == c \in {"\"", "'", BackTick}

\* the per-file-kind acceptance test of an occurrence at foundIndex
ShouldMatch(ext, line, sectionId, foundIndex) ==
    LET beforeChar == IF foundIndex > 0 THEN CharAt(line, foundIndex - 1) ELSE ""
        afterChar  == CharAt(line, foundIndex + Len(sectionId))
    IN  CASE ext = "lua" -> IsQuote(beforeChar) /\ IsQuote(afterChar)
          [] ext = "ts"  -> IsQuoteTs(beforeChar) /\ IsQuoteTs(afterChar)
          [] ext = "ini" -> ~StartsWith(Trim(line), "[")
          [] OTHER       -> TRUE

\* a search that resumes behind the occurrence just found
SkipPastMatch(sectionId, foundIndex) == foundIndex + Len(sectionId)

\* where the search resumes after a hit at foundIndex
NextSearchIndex(sectionId, foundIndex) == foundIndex + 1

\* the while loop over one line for one id: the ranges pushed, in order
RECURSIVE ScanLineFor(_, _, _, _, _)
ScanLineFor(ext, line, lineIndex, sectionId, searchIndex) ==
    Let(LAMBDA foundIndex :
            IF foundIndex = -1 THEN <<>>
            ELSE (IF ShouldMatch(ext, line, sectionId, foundIndex)
                  THEN << <<lineIndex, foundIndex, foundIndex + Len(sectionId)>> >>
                  ELSE <<>>)
                 \o ScanLineFor(ext, line, lineIndex, sectionId,
                                NextSearchIndex(sectionId, foundIndex)),
        IndexOf(line, sectionId, searchIndex))

\* the ranges of one id over all lines (INI header lines are skipped)
RECURSIVE ScanLinesFor(_, _, _, _)
ScanLinesFor(ext, lines, i, sectionId) ==
    IF i > Len(lines) THEN <<>>
    ELSE (IF ext = "ini" /\ StartsWith(Trim(lines[i]), "[") THEN <<>>
          ELSE ScanLineFor(ext, lines[i], i - 1, sectionId, 0))
         \o ScanLinesFor(ext, lines, i + 1, sectionId)

\* tokenMap: the ids with at least one accepted occurrence -> their ranges
TokenMap(ext, lines, sectionIds) ==
    LET hit == {id \in sectionIds : ScanLinesFor(ext, lines, 1, id) # <<>>}
    IN  [id \in hit |-> ScanLinesFor(ext, lines, 1, id)]

\* ------------------------------------------------------------------------
\* The workspace
\* ------------------------------------------------------------------------

\* number of concurrently pending asynchronous calls / timers of the model
MaxTasks == 2

FA == <<"a", "ini">>
FB == <<"b", "ini">>
FL == <<"m", "lua">>

\* the workspace files, in the order vscode.workspace.findFiles lists them
Files == <<FA, FB, FL>>

FileSet == {Files[i] : i \in 1..Len(Files)}

IniFiles == {f \in FileSet : Ext(f) = "ini"}

ScriptFiles == FileSet \ IniFiles

NoFile == <<>>

\* the glob patterns of FileTokenManager.scanAllFiles, by extension
Patterns == <<"ini", "lua", "txt", "ts", "md">>

Hx == <<"[", "x", "]">>
Hy == <<"[", "y", "]">>

\* contents the files can take
A1 == << Hx, <<>>, <<"k", "=", "y">>, Hy >>
A2 == << Hy, <<"x">> >>
B1 == << Hx, <<"y">> >>
B2 == << <<"k">> >>
L1 == << <<"(", "'", "x", "'", ")">> >>
L2 == << <<"'", "y", "'">>, <<"x">> >>

Contents(f) ==
    CASE f = FA -> {A1, A2}
      [] f = FB -> {B1, B2}
      [] OTHER  -> {L1, L2}

\* the workspace the extension is activated in
InitialContent(f) ==
    CASE f = FA -> A1
      [] f = FB -> B1
      [] OTHER  -> L1

\* vscode.workspace.findFiles(pattern): the existing files of that extension
FindFiles(ext, d) == SelectSeq(Files, LAMBDA f : Ext(f) = ext /\ d[f] # Absent)

\* ------------------------------------------------------------------------
\* ConfigSectionManager (cfg = [sections, hashes])
\* ------------------------------------------------------------------------

getAllSectionIds(sections) == {sections[k].id : k \in 1..Len(sections)}

\* a scanIniFile without the fingerprint comparison: every readable file is
\* parsed again
IniReadable(cfg, uri, content) == content # Absent

\* scanIniFile returns true: the file is readable and its hash is new
IniChanged(cfg, uri, content) ==
    /\ content # Absent
    /\ \/ uri \notin DOMAIN cfg.hashes
       \/ cfg.hashes[uri] # getFileHash(content)

scanIniFile(cfg, uri, content) ==
    IF IniChanged(cfg, uri, content)
    THEN [sections |-> ParseIni(cfg.sections, uri, content),
          hashes   |-> (uri :> getFileHash(content)) @@ cfg.hashes]
    ELSE cfg

\* a loop over the enumerated files that gives up at the first unreadable one
RECURSIVE AbortingScan(_, _, _)
AbortingScan(cfg, uris, d) ==
    IF uris = <<>> \/ d[Head(uris)] = Absent THEN cfg
    ELSE Let(LAMBDA scanned : AbortingScan(scanned, Tail(uris), d),
             scanIniFile(cfg, Head(uris), d[Head(uris)]))

RECURSIVE ScanIniUris(_, _, _)
ScanIniUris(cfg, uris, d) ==
    IF uris = <<>> THEN cfg
    ELSE Let(LAMBDA scanned : ScanIniUris(scanned, Tail(uris), d),
             scanIniFile(cfg, Head(uris), d[Head(uris)]))

\* scanAllSections: every enumerated .ini file, in order
scanAllSections(cfg, d) == ScanIniUris(cfg, FindFiles("ini", d), d)

\* hasChanges of scanAllSections
SectionsChanged(cfg, d) ==
    \E f \in IniFiles : d[f] # Absent /\ IniChanged(cfg, f, d[f])

\* ------------------------------------------------------------------------
\* FileTokenManager (tok = [tokens, hashes])
\* ------------------------------------------------------------------------

EmptyTok == [tokens |-> <<>>, hashes |-> <<>>]

\* scanFileTokens returns true
TokChanged(tok, ids, uri, content) ==
    /\ content # Absent
    /\ \/ uri \notin DOMAIN tok.hashes
       \/ tok.hashes[uri] # getFileHash(content)
    /\ ids # {}

scanFileTokens(tok, ids, uri, content) ==
    IF TokChanged(tok, ids, uri, content)
    THEN [tokens |-> (uri :> TokenMap(Ext(uri), content, ids)) @@ tok.tokens,
          hashes |-> (uri :> getFileHash(content)) @@ tok.hashes]
    ELSE tok

RECURSIVE ScanTokUris(_, _, _, _)
ScanTokUris(tok, ids, uris, d) ==
    IF uris = <<>> THEN tok
    ELSE Let(LAMBDA scanned : ScanTokUris(scanned, ids, Tail(uris), d),
             scanFileTokens(tok, ids, Head(uris), d[Head(uris)]))

\* one round of the pattern loop of scanAllFiles
ScanPattern(tok, ids, p, d) == ScanTokUris(tok, ids, FindFiles(Patterns[p], d), d)

\* refreshAllTokens up to its first suspension: both caches cleared
ClearedTok == EmptyTok

\* onConfigCacheUpdated: the token cache is cleared, the hashes are kept, and
\* the files that were cached are scanned again
onConfigCacheUpdated(tok, ids, d) ==
    LET cachedFiles == SelectSeq(Files, LAMBDA f : f \in DOMAIN tok.tokens)
    IN  ScanTokUris([tokens |-> <<>>, hashes |-> tok.hashes], ids, cachedFiles, d)

\* a delete that empties the whole map
WithoutAll(fn, x) == <<>>

\* Map.delete
Without(fn, x) == [y \in DOMAIN fn \ {x} |-> fn[y]]

\* the most timers of one file the model lets pile up
MaxStacked == 2

\* setTimeout without the clearTimeout of the pending timer
StackTimer(timeouts, f) ==
    (f :> IF f \notin DOMAIN timeouts THEN 1
          ELSE IF timeouts[f] < MaxStacked THEN timeouts[f] + 1 ELSE MaxStacked) @@ timeouts

\* triggerUpdateDecorations past its await: clearTimeout of the pending timer
\* of the file, then fileTimeouts.set(filePath, setTimeout(...))
ArmTimer(timeouts, f) == (f :> 1) @@ timeouts

\* a timer of f has fired and its callback has run to fileTimeouts.delete
TimerFired(timeouts, f) ==
    IF timeouts[f] > 1 THEN (f :> timeouts[f] - 1) @@ timeouts ELSE Without(timeouts, f)

\* clearFileCache
clearFileCache(tok, uri) ==
    [tokens |-> Without(tok.tokens, uri), hashes |-> Without(tok.hashes, uri)]

\* ------------------------------------------------------------------------
\* Rendering (files of at most 1000 lines: every range is rendered)
\* ------------------------------------------------------------------------

\* the ranges of a tokenMap, as handed to editor.setDecorations
AllRanges(tokenMap) ==
    UNION {{tokenMap[id][k] : k \in 1..Len(tokenMap[id])} : id \in DOMAIN tokenMap}

\* !fileTokens || fileTokens.size === 0
NoTokens(tokens, f) == f \notin DOMAIN tokens \/ DOMAIN tokens[f] = {}

\* IniSectionDecorationProvider.updateDecorations, called while not refreshing
updateDecorations(decos, tokens, f) ==
    IF NoTokens(tokens, f) THEN decos
    ELSE (f :> AllRanges(tokens[f])) @@ decos

\* the token cache after DecorationUpdateManager.updateActiveEditor(f)
ActiveEditorTok(tok, ids, f, refreshing, d) ==
    IF f = NoFile \/ refreshing THEN tok
    ELSE IF NoTokens(tok.tokens, f) THEN scanFileTokens(tok, ids, f, d[f])
    ELSE tok

\* the editor decorations after DecorationUpdateManager.updateActiveEditor(f)
ActiveEditorDecos(decos, tok, ids, f, refreshing, d) ==
    IF f = NoFile \/ refreshing THEN decos
    ELSE updateDecorations(decos, ActiveEditorTok(tok, ids, f, refreshing, d).tokens, f)

\* the reference list goToReferences hands to showLocationPicker
ReferenceLocations(tokens, defUri, sectionId) ==
    UNION {{<<f, tokens[f][sectionId][k]>> : k \in 1..Len(tokens[f][sectionId])} :
             f \in {g \in DOMAIN tokens \ {defUri} : sectionId \in DOMAIN tokens[g]}}

\* ------------------------------------------------------------------------
\* State
\* ------------------------------------------------------------------------

VARIABLES
    disk,                 \* file -> content on disk (Absent: no such file)
    doc,                  \* script file -> content of its editor buffer
    sectionCache,         \* ConfigSectionManager.sectionCache (insertion order)
    iniHashCache,         \* ConfigSectionManager.fileHashCache
    lastScanTime,         \* ConfigSectionManager.lastScanTime of src/src/extension.ts:
                          \* 0, or 1 for the time of its last scan
    fileTokenCache,       \* FileTokenManager.fileTokenCache
    fileHashCache,        \* FileTokenManager.fileHashCache
    isRefreshing,         \* CacheRefreshManager.isRefreshing
    refreshQueue,         \* CacheRefreshManager.refreshQueue (insertion order)
    refreshPromise,       \* the call whose performCacheRefresh it is, 0 for null
    isDecorationUpdating, \* CacheRefreshManager.isDecorationUpdating
    tasks,                \* the suspended asynchronous calls and pending timers
    activeEditor,         \* vscode.window.activeTextEditor
    decorations,          \* file -> ranges last given to editor.setDecorations
    fileTimeouts,         \* IniSectionDecorationProvider.fileTimeouts: per file the
                          \* number of its timers set and neither cleared nor fired
    picker,               \* what goToReferences last gave to showLocationPicker
    editorView,           \* file -> document.lineCount and visibleRanges of its editor
    chunkCache,           \* IniSectionDecorationProvider.chunkCache
    visibleChunks         \* IniSectionDecorationProvider.visibleChunks

envVars == <<disk, doc>>
idxVars == <<sectionCache, iniHashCache, lastScanTime, fileTokenCache, fileHashCache>>
cfgVars == <<sectionCache, iniHashCache, lastScanTime>>
tokVars == <<fileTokenCache, fileHashCache>>
viewVars == <<editorView, chunkCache, visibleChunks>>
uiVars == <<activeEditor, decorations, fileTimeouts, picker, viewVars>>
vars == <<disk, doc, sectionCache, iniHashCache, lastScanTime, fileTokenCache,
          fileHashCache,
          isRefreshing, refreshQueue, refreshPromise, isDecorationUpdating,
          tasks, activeEditor, decorations, fileTimeouts, picker,
          editorView, chunkCache, visibleChunks>>

Cfg == [sections |-> sectionCache, hashes |-> iniHashCache]
Tok == [tokens |-> fileTokenCache, hashes |-> fileHashCache]
Ids == getAllSectionIds(sectionCache)

SetCfg(cfg) ==
    /\ \E c \in {cfg} : sectionCache' = c.sections /\ iniHashCache' = c.hashes
    /\ UNCHANGED lastScanTime
SetTok(tok) == \E k \in {tok} : fileTokenCache' = k.tokens /\ fileHashCache' = k.hashes

Tasks == 1..MaxTasks

Task(kind, pc, uri, pat, on) ==
    [kind |-> kind, pc |-> pc, uri |-> uri, pat |-> pat, on |-> on]

Free == Task("free", "none", NoFile, 0, 0)

HasFree == \E s \in Tasks : tasks[s] = Free

FreeSlot == CHOOSE s \in Tasks : tasks[s] = Free /\ \A u \in 1..(s - 1) : tasks[u] # Free

NoPicker == [id |-> <<>>, def |-> <<>>, refs |-> {}]

Init ==
    /\ disk = [f \in FileSet |-> InitialContent(f)]
    /\ doc = [f \in ScriptFiles |-> InitialContent(f)]
    /\ sectionCache = <<>>
    /\ iniHashCache = <<>>
    /\ lastScanTime = 0
    /\ fileTokenCache = <<>>
    /\ fileHashCache = <<>>
    /\ isRefreshing = FALSE
    /\ refreshQueue = <<>>
    /\ refreshPromise = 0
    /\ isDecorationUpdating = FALSE
    /\ tasks = [t \in Tasks |-> Free]
    /\ activeEditor = NoFile
    /\ decorations = <<>>
    /\ fileTimeouts = <<>>
    /\ picker = NoPicker
    /\ editorView = <<>>
    /\ chunkCache = <<>>
    /\ visibleChunks = <<>>

\* ------------------------------------------------------------------------
\* CacheRefreshManager
\* ------------------------------------------------------------------------

\* a coordinator that released the lock after the awaited body instead of in a
\* finally block: a throw would leave isRefreshing set
ReleaseAfterBody(threw) == threw

\* the finally blocks: this.isRefreshing = false, whether or not the body threw
FinallyFlag(threw) == FALSE

\* waitForCacheRefresh suspends its caller only while refreshPromise is set
WaitsForRefresh == refreshPromise # 0

\* refreshCaches: isRefreshing = true; refreshPromise = performCacheRefresh()
StartRefreshCaches(s) ==
    /\ isRefreshing' = TRUE
    /\ refreshPromise' = s
    /\ tasks' = [tasks EXCEPT ![s] = Task("refreshCaches", "scanAllSections", NoFile, 0, 0)]

\* the refreshCaches calls suspended in waitForDecorationUpdate; each carries in
\* "on" its place in the order in which they will resume
AwaitingDecoration == {t \in Tasks : tasks[t].pc = "awaitDecoration"}

\* refreshCaches(reason) up to its first suspension.
\* When it returns at once (a refresh without promise is running) the caller's
\* updateActiveEditor finds isRefreshing set and does nothing.
refreshCaches ==
    /\ UNCHANGED <<idxVars, refreshQueue, isDecorationUpdating, uiVars>>
    /\ IF isRefreshing
       THEN IF WaitsForRefresh
            THEN /\ HasFree
                 /\ tasks' = [tasks EXCEPT ![FreeSlot] =
                        Task("refreshCaches", "awaitRefresh", NoFile, 0, refreshPromise)]
                 /\ UNCHANGED <<isRefreshing, refreshPromise>>
            ELSE UNCHANGED <<isRefreshing, refreshPromise, tasks>>
       ELSE IF isDecorationUpdating
            THEN /\ HasFree
                 /\ tasks' = [tasks EXCEPT ![FreeSlot] =
                        Task("refreshCaches", "awaitDecoration", NoFile, 0,
                             Cardinality(AwaitingDecoration) + 1)]
                 /\ UNCHANGED <<isRefreshing, refreshPromise>>
            ELSE /\ HasFree
                 /\ StartRefreshCaches(FreeSlot)

\* the calls suspended in waitForCacheRefresh on the promise of call t
Awaiting(t) == {u \in Tasks : tasks[u].pc = "awaitRefresh" /\ tasks[u].on = t}

\* the end of refreshCaches for call t: its finally block, the resumption of
\* every call awaiting its promise (refreshCaches callers return,
\* triggerUpdateDecorations arms its debounce timer), and - unless the refresh
\* threw - the callers' updateActiveEditor(activeTextEditor)
Complete(t, sections, tok, threw) ==
    /\ isRefreshing' = FinallyFlag(threw)
    /\ refreshPromise' = 0
    /\ tasks' = [u \in Tasks |-> IF u = t \/ u \in Awaiting(t) THEN Free ELSE tasks[u]]
    /\ fileTimeouts' =
           LET resumed == IF threw THEN {}
                          ELSE {tasks[u].uri :
                                   u \in {w \in Awaiting(t) : tasks[w].kind = "trigger"}}
           IN  [g \in DOMAIN fileTimeouts \cup resumed |->
                   IF g \in resumed THEN ArmTimer(fileTimeouts, g)[g] ELSE fileTimeouts[g]]
    /\ LET ids == getAllSectionIds(sections)
           skip == threw \/ FinallyFlag(threw)
       IN  /\ SetTok(ActiveEditorTok(tok, ids, activeEditor, skip, disk))
           /\ decorations' = ActiveEditorDecos(decorations, tok, ids, activeEditor, skip, disk)
    /\ UNCHANGED <<envVars, refreshQueue, isDecorationUpdating, activeEditor, picker,
                   viewVars>>

\* performCacheRefresh, first part: scanAllSections, and when it reports a
\* change the clearing of refreshAllTokens
PerformScanAllSections(t) ==
    /\ tasks[t].kind = "refreshCaches" /\ tasks[t].pc = "scanAllSections"
    /\ IF SectionsChanged(Cfg, disk)
       THEN /\ SetCfg(scanAllSections(Cfg, disk))
            /\ SetTok(ClearedTok)
            /\ tasks' = [tasks EXCEPT ![t].pc = "scanAllFiles", ![t].pat = 1]
            /\ UNCHANGED <<envVars, isRefreshing, refreshQueue, refreshPromise,
                           isDecorationUpdating, uiVars>>
       ELSE /\ UNCHANGED cfgVars
            /\ Complete(t, sectionCache, Tok, FALSE)

\* performCacheRefresh: withProgress rejects; the catch block rethrows
PerformThrows(t) ==
    /\ tasks[t].kind = "refreshCaches" /\ tasks[t].pc = "scanAllSections"
    /\ UNCHANGED cfgVars
    /\ Complete(t, sectionCache, Tok, TRUE)

\* scanAllFiles: one pattern of the loop; after the last one the refresh ends
\* (refreshCaches) or waits out its minimum display time (refreshIniFile)
ScanAllFilesStep(t) ==
    /\ tasks[t].pc = "scanAllFiles"
    /\ LET p == tasks[t].pat
           tok == ScanPattern(Tok, Ids, p, disk)
       IN  IF p < Len(Patterns)
           THEN /\ SetTok(tok)
                /\ tasks' = [tasks EXCEPT ![t].pat = p + 1]
                /\ UNCHANGED <<envVars, cfgVars, isRefreshing, refreshQueue,
                               refreshPromise, isDecorationUpdating, uiVars>>
           ELSE IF tasks[t].kind = "refreshCaches"
                THEN /\ UNCHANGED cfgVars
                     /\ Complete(t, sectionCache, tok, FALSE)
                ELSE /\ SetTok(tok)
                     /\ tasks' = [tasks EXCEPT ![t].pc = "delay", ![t].pat = 0]
                     /\ UNCHANGED <<envVars, cfgVars, isRefreshing, refreshQueue,
                                    refreshPromise, isDecorationUpdating, uiVars>>

\* refreshQueue.add
Enqueue(queue, uri) ==
    IF \E k \in 1..Len(queue) : queue[k] = uri THEN queue ELSE Append(queue, uri)

\* refreshIniFile(uri) run as call s: queued while refreshing; otherwise the
\* file is rescanned and refreshAllTokens clears the token caches
refreshIniFile(uri, s) ==
    IF isRefreshing
    THEN /\ refreshQueue' = Enqueue(refreshQueue, uri)
         /\ tasks' = [u \in Tasks |-> IF u = s THEN Free ELSE tasks[u]]
         /\ UNCHANGED <<envVars, idxVars, isRefreshing, refreshPromise,
                        isDecorationUpdating, uiVars>>
    ELSE /\ isRefreshing' = TRUE
         /\ SetCfg(scanIniFile(Cfg, uri, disk[uri]))
         /\ SetTok(ClearedTok)
         /\ tasks' = [tasks EXCEPT ![s] = Task("refreshIniFile", "scanAllFiles", uri, 1, 0)]
         /\ UNCHANGED <<envVars, refreshQueue, refreshPromise, isDecorationUpdating, uiVars>>

\* refreshFileTokens(uri) run as call s: queued while refreshing; otherwise
\* updateFileTokens, then the minimum display time
refreshFileTokens(uri, s) ==
    IF isRefreshing
    THEN /\ refreshQueue' = Enqueue(refreshQueue, uri)
         /\ tasks' = [u \in Tasks |-> IF u = s THEN Free ELSE tasks[u]]
         /\ UNCHANGED <<idxVars, isRefreshing, refreshPromise, isDecorationUpdating, uiVars>>
    ELSE /\ isRefreshing' = TRUE
         /\ SetTok(scanFileTokens(Tok, Ids, uri, disk[uri]))
         /\ tasks' = [tasks EXCEPT ![s] = Task("refreshFileTokens", "delay", uri, 0, 0)]
         /\ UNCHANGED <<cfgVars, refreshQueue, refreshPromise, isDecorationUpdating, uiVars>>

\* what the finally block of refreshIniFile / refreshFileTokens leaves of the
\* queue: one path is taken out
Drained(queue) == Tail(queue)

\* the finally block of refreshIniFile / refreshFileTokens: the lock is
\* released and one queued path is handed to a 100 ms timer
FileFinally(t, threw) ==
    /\ isRefreshing' = FinallyFlag(threw)
    /\ IF refreshQueue # <<>>
       THEN /\ refreshQueue' = Drained(refreshQueue)
            /\ tasks' = [tasks EXCEPT ![t] =
                   Task(tasks[t].kind, "timer", Head(refreshQueue), 0, 0)]
       ELSE /\ tasks' = [tasks EXCEPT ![t] = Free]
            /\ UNCHANGED refreshQueue
    /\ UNCHANGED <<envVars, idxVars, refreshPromise, isDecorationUpdating, uiVars>>

\* refreshIniFile / refreshFileTokens: the minimum display time is over
FinishFileRefresh(t) ==
    /\ tasks[t].pc = "delay"
    /\ FileFinally(t, FALSE)

\* refreshIniFile: withProgress rejects while the tokens are being rebuilt;
\* the catch block logs the error
FileRefreshThrows(t) ==
    /\ tasks[t].kind = "refreshIniFile" /\ tasks[t].pc = "scanAllFiles"
    /\ FileFinally(t, TRUE)

\* the 100 ms timer of the drain fires
TimerFires(t) ==
    /\ tasks[t].pc = "timer"
    /\ IF tasks[t].kind = "refreshIniFile"
       THEN refreshIniFile(tasks[t].uri, t)
       ELSE refreshFileTokens(tasks[t].uri, t) /\ UNCHANGED envVars

\* refreshIniFile / refreshFileTokens called from outside the manager
CallRefreshIniFile(uri) ==
    /\ isRefreshing \/ HasFree
    /\ refreshIniFile(uri, IF isRefreshing THEN 0 ELSE FreeSlot)

CallRefreshFileTokens(uri) ==
    /\ isRefreshing \/ HasFree
    /\ refreshFileTokens(uri, IF isRefreshing THEN 0 ELSE FreeSlot)
    /\ UNCHANGED envVars

\* setDecorationUpdating(promise)
setDecorationUpdating ==
    /\ ~isDecorationUpdating
    /\ isDecorationUpdating' = TRUE
    /\ UNCHANGED <<envVars, idxVars, isRefreshing, refreshQueue, refreshPromise, tasks, uiVars>>

\* the decoration promise settles: its finally callback runs, then every
\* refreshCaches call that awaited it goes on, in turn and without looking at
\* isRefreshing again, to start its refresh; refreshPromise is left as that of
\* the call that resumed last
DecorationSettled ==
    /\ isDecorationUpdating
    /\ isDecorationUpdating' = FALSE
    /\ IF AwaitingDecoration = {}
       THEN UNCHANGED <<isRefreshing, refreshPromise, tasks>>
       ELSE /\ isRefreshing' = TRUE
            /\ refreshPromise' = CHOOSE t \in AwaitingDecoration :
                                    tasks[t].on = Cardinality(AwaitingDecoration)
            /\ tasks' = [t \in Tasks |->
                   IF t \in AwaitingDecoration
                   THEN Task("refreshCaches", "scanAllSections", NoFile, 0, 0)
                   ELSE tasks[t]]
    /\ UNCHANGED <<envVars, idxVars, refreshQueue, uiVars>>

\* CacheRefreshManager.dispose
dispose ==
    /\ refreshQueue' = <<>>
    /\ isRefreshing' = FALSE
    /\ UNCHANGED <<envVars, idxVars, refreshPromise, isDecorationUpdating, tasks, uiVars>>

\* ------------------------------------------------------------------------
\* activate: the event handlers and commands; the decoration provider
\* ------------------------------------------------------------------------

\* the ids a command can be invoked with
IdUniverse == {<<"x">>, <<"y">>}

\* refreshCaches called and followed by updateActiveEditor, as initializeCaches
\* does and as the save handler does when the saved file did not change
CallRefreshCaches ==
    /\ UNCHANGED envVars
    /\ refreshCaches

\* a configuration file is saved with content c: onDidSaveTextDocument calls
\* refreshCaches, then updateActiveEditor
onDidSaveTextDocument(f, c) ==
    /\ disk' = [disk EXCEPT ![f] = c]
    /\ UNCHANGED doc
    /\ refreshCaches

\* a configuration file is deleted from the workspace (no event is handled)
DeleteFile(f) ==
    /\ disk[f] # Absent
    /\ disk' = [disk EXCEPT ![f] = Absent]
    /\ UNCHANGED <<doc, idxVars, isRefreshing, refreshQueue, refreshPromise,
                   isDecorationUpdating, tasks, uiVars>>

\* the buffer of a script file is edited to c: onDidChangeTextDocument returns
\* while a refresh is running and calls refreshFileTokens otherwise
onDidChangeTextDocument(f, c) ==
    /\ c # doc[f]
    /\ doc' = [doc EXCEPT ![f] = c]
    /\ UNCHANGED disk
    /\ IF isRefreshing
       THEN UNCHANGED <<idxVars, isRefreshing, refreshQueue, refreshPromise,
                        isDecorationUpdating, tasks, uiVars>>
       ELSE /\ HasFree
            /\ refreshFileTokens(f, FreeSlot)
            /\ UNCHANGED refreshQueue

\* the buffer of a script file is written to disk (the save handler ignores it)
SaveScript(f) ==
    /\ doc[f] # disk[f]
    /\ disk' = [disk EXCEPT ![f] = doc[f]]
    /\ UNCHANGED <<doc, idxVars, isRefreshing, refreshQueue, refreshPromise,
                   isDecorationUpdating, tasks, uiVars>>

\* onDidChangeActiveTextEditor: updateActiveEditor(editor)
onDidChangeActiveTextEditor(f) ==
    /\ activeEditor' = f
    /\ SetTok(ActiveEditorTok(Tok, Ids, f, isRefreshing, disk))
    /\ decorations' = ActiveEditorDecos(decorations, Tok, Ids, f, isRefreshing, disk)
    /\ UNCHANGED <<envVars, cfgVars, isRefreshing, refreshQueue, refreshPromise,
                   isDecorationUpdating, tasks, fileTimeouts, picker, viewVars>>

\* onDidCloseTextDocument: clearFileCache and onFileClosed; the editor is gone
onDidCloseTextDocument(f) ==
    /\ SetTok(clearFileCache(Tok, f))
    /\ decorations' = Without(decorations, f)
    /\ fileTimeouts' = Without(fileTimeouts, f)
    /\ activeEditor' = IF activeEditor = f THEN NoFile ELSE activeEditor
    /\ chunkCache' = Without(chunkCache, f)
    /\ visibleChunks' = Without(visibleChunks, f)
    /\ UNCHANGED <<envVars, cfgVars, isRefreshing, refreshQueue, refreshPromise,
                   isDecorationUpdating, tasks, picker, editorView>>

\* triggerUpdateDecorations(editor of f): while a refresh is running it first
\* awaits waitForCacheRefresh, then it (re)arms the debounce timer of f
triggerUpdateDecorations(f) ==
    /\ IF isRefreshing /\ WaitsForRefresh
       THEN /\ HasFree
            /\ tasks' = [tasks EXCEPT ![FreeSlot] =
                   Task("trigger", "awaitRefresh", f, 0, refreshPromise)]
            /\ UNCHANGED fileTimeouts
       ELSE /\ fileTimeouts' = ArmTimer(fileTimeouts, f)
            /\ UNCHANGED tasks
    /\ UNCHANGED <<envVars, idxVars, isRefreshing, refreshQueue, refreshPromise,
                   isDecorationUpdating, activeEditor, decorations, picker,
                   viewVars>>

\* the debounce timer of f fires: updateDecorations(editor), which returns at
\* once while a refresh is running; then fileTimeouts.delete
DebounceFires(f) ==
    /\ f \in DOMAIN fileTimeouts
    /\ fileTimeouts' = TimerFired(fileTimeouts, f)
    /\ decorations' = IF isRefreshing THEN decorations
                      ELSE updateDecorations(decorations, fileTokenCache, f)
    /\ UNCHANGED <<envVars, idxVars, isRefreshing, refreshQueue, refreshPromise,
                   isDecorationUpdating, tasks, activeEditor, picker, viewVars>>

\* the goToReferences command for a defined id
goToReferences(id) ==
    /\ \E k \in 1..Len(sectionCache) :
          /\ sectionCache[k].id = id
          /\ picker' = [id   |-> id,
                        def  |-> <<sectionCache[k].uri, sectionCache[k].line>>,
                        refs |-> ReferenceLocations(fileTokenCache, sectionCache[k].uri, id)]
    /\ UNCHANGED <<envVars, idxVars, isRefreshing, refreshQueue, refreshPromise,
                   isDecorationUpdating, tasks, activeEditor, decorations, fileTimeouts,
                   viewVars>>

\* FileTokenManager.onConfigCacheUpdated()
ConfigCacheUpdated ==
    /\ SetTok(onConfigCacheUpdated(Tok, Ids, disk))
    /\ UNCHANGED <<envVars, cfgVars, isRefreshing, refreshQueue, refreshPromise,
                   isDecorationUpdating, tasks, uiVars>>

\* ------------------------------------------------------------------------
\* Specifications
\* ------------------------------------------------------------------------

\* the steps the running refreshes and timers take by themselves
Internal ==
    \/ \E t \in Tasks : PerformScanAllSections(t)
    \/ \E t \in Tasks : PerformThrows(t)
    \/ \E t \in Tasks : ScanAllFilesStep(t)
    \/ \E t \in Tasks : FinishFileRefresh(t)
    \/ \E t \in Tasks : TimerFires(t)

\* the whole extension
Next ==
    \/ Internal
    \/ \E t \in Tasks : FileRefreshThrows(t)
    \/ CallRefreshCaches
    \/ \E f \in IniFiles : \E c \in Contents(f) : onDidSaveTextDocument(f, c)
    \/ \E f \in IniFiles : DeleteFile(f)
    \/ \E f \in ScriptFiles : \E c \in Contents(f) : onDidChangeTextDocument(f, c)
    \/ \E f \in ScriptFiles : SaveScript(f)
    \/ \E f \in IniFiles : CallRefreshIniFile(f)
    \/ \E f \in FileSet : CallRefreshFileTokens(f)
    \/ setDecorationUpdating
    \/ DecorationSettled
    \/ dispose
    \/ \E f \in FileSet : onDidChangeActiveTextEditor(f)
    \/ \E f \in FileSet : onDidCloseTextDocument(f)
    \/ \E f \in FileSet : triggerUpdateDecorations(f)
    \/ \E f \in FileSet : DebounceFires(f)
    \/ \E id \in IdUniverse : goToReferences(id)
    \/ ConfigCacheUpdated

Spec == Init /\ [][Next]_vars

\* the three entries into Refreshing, with the host running every suspended
\* call and every timer that is ready: a findFiles request is answered, a
\* setTimeout callback is called
NextRelease ==
    \/ Internal
    \/ \E t \in Tasks : FileRefreshThrows(t)
    \/ CallRefreshCaches
    \/ CallRefreshIniFile(FA)
    \/ \E f \in ScriptFiles : CallRefreshFileTokens(f)

SpecRelease == Init /\ [][NextRelease]_vars /\ WF_vars(Internal)

\* the refresh coordinator under every interleaving of its calls, on a
\* workspace whose files stay as they are
NextCoord ==
    \/ Internal
    \/ \E t \in Tasks : FileRefreshThrows(t)
    \/ CallRefreshCaches
    \/ \E f \in ScriptFiles : \E c \in Contents(f) : onDidChangeTextDocument(f, c)
    \/ CallRefreshIniFile(FA)
    \/ \E f \in ScriptFiles : CallRefreshFileTokens(f)
    \/ setDecorationUpdating
    \/ DecorationSettled
    \/ dispose

SpecCoord == Init /\ [][NextCoord]_vars

\* the two indices under configuration-file edits and the refreshes
NextIndex ==
    \/ Internal
    \/ \E t \in Tasks : FileRefreshThrows(t)
    \/ CallRefreshCaches
    \/ \E c \in Contents(FA) : onDidSaveTextDocument(FA, c)
    \/ DeleteFile(FA)
    \/ CallRefreshIniFile(FA)
    \/ ConfigCacheUpdated

SpecIndex == Init /\ [][NextIndex]_vars

\* the files that are opened in editors
Editors == {FA, FL}

\* the readers of the indices (editors, decorations, commands) beside the
\* refreshes
NextReaders ==
    \/ Internal
    \/ CallRefreshCaches
    \/ \E f \in ScriptFiles : CallRefreshFileTokens(f)
    \/ \E f \in Editors : onDidChangeActiveTextEditor(f)
    \/ \E f \in Editors : onDidCloseTextDocument(f)
    \/ \E f \in Editors : triggerUpdateDecorations(f)
    \/ \E f \in Editors : DebounceFires(f)
    \/ \E id \in IdUniverse : goToReferences(id)

SpecReaders == Init /\ [][NextReaders]_vars

\* ------------------------------------------------------------------------
\* Properties
\* ------------------------------------------------------------------------

\* the coordinator states
Idle == ~isRefreshing

Refreshing == isRefreshing

\* file f has been indexed and is still what it was when it was indexed
IndexedAsIs(f) ==
    /\ disk[f] # Absent
    /\ f \in DOMAIN fileHashCache
    /\ fileHashCache[f] = getFileHash(disk[f])

\* C1: whenever the coordinator is Idle, every file that was indexed and has
\* not changed since has a TokenRecord, and that record is what scanning the
\* file against the current SectionIndex identifier set gives - after any
\* sequence of configuration edits, refreshCaches, refreshIniFile and
\* onConfigCacheUpdated.
C1_TokenIndexCurrent ==
    Idle => \A f \in FileSet :
                IndexedAsIs(f) =>
                    /\ f \in DOMAIN fileTokenCache
                    /\ fileTokenCache[f] = TokenMap(Ext(f), disk[f], Ids)

\* the 1-based lines of configuration file f on disk that are [id] headers
HeaderLines(f, id) ==
    IF disk[f] = Absent THEN {}
    ELSE {i \in 1..Len(disk[f]) : IsHeader(disk[f][i]) /\ HeaderId(disk[f][i]) = id}

\* getDefinition(id) and getContent(id) answer with a header that a
\* configuration file of the workspace has, and with the lines below it
DefinitionIsCurrent(id) ==
    \E k \in 1..Len(sectionCache) :
        /\ sectionCache[k].id = id
        /\ sectionCache[k].line + 1 \in HeaderLines(sectionCache[k].uri, id)
        /\ sectionCache[k].content =
               SectionContent(disk[sectionCache[k].uri], sectionCache[k].line + 2)

\* C2: when scanAllSections has run, every id that has a header in some
\* configuration file of the workspace is in the index, located at a header
\* [id] of a file of the workspace, with the non-blank lines that follow that
\* header up to the next header or the end of the file as its content.
C2_FullRescanDefines ==
    [][(\E t \in Tasks : PerformScanAllSections(t)) =>
          (\A id \in IdUniverse :
              (\E f \in IniFiles : HeaderLines(f, id) # {}) => DefinitionIsCurrent(id))']_vars

\* call t is inside a rebuild body: performCacheRefresh, or the try block of
\* refreshIniFile or refreshFileTokens
InRebuild(t) == tasks[t].pc \in {"scanAllSections", "scanAllFiles", "delay"}

Rebuilding == {t \in Tasks : InRebuild(t)}

\* C3: under every interleaving of refreshCaches, refreshIniFile,
\* refreshFileTokens, setDecorationUpdating and dispose, at most one rebuild
\* body is between its start and its completion.
C3_SingleRebuild == Cardinality(Rebuilding) <= 1

\* C4: SectionIndex and TokenIndex (records and fingerprints) change only in
\* steps taken while the coordinator is Refreshing or entering Refreshing;
\* editor activation, decoration rendering and file close leave them alone.
C4_OnlyRefreshWrites ==
    [][idxVars' # idxVars => (isRefreshing \/ isRefreshing')]_vars

\* a refresh has cleared TokenIndex (refreshAllTokens) and has not finished
\* rebuilding it
HalfCleared == \E t \in Tasks : tasks[t].pc = "scanAllFiles"

\* C5: between the moment a refresh clears TokenIndex and the moment it has
\* rebuilt it, no references lookup reads TokenIndex.
C5_NoReadWhileCleared ==
    [][(\E id \in IdUniverse : goToReferences(id)) => ~HalfCleared]_vars

\* C6: every entry into Refreshing, by refreshCaches, refreshIniFile or
\* refreshFileTokens, is eventually followed by Idle, also when the rebuild
\* throws.
C6_LockReleased == Refreshing ~> Idle

\* C6: refreshIniFile has thrown while the tokens were being rebuilt (the
\* rebuild is left unfinished), and the coordinator is Idle with no call left
C6_ThrewAndIdle ==
    /\ Idle
    /\ \A t \in Tasks : tasks[t] = Free
    /\ sectionCache # <<>>
    /\ FL \notin DOMAIN fileHashCache

\* path f is in the request queue
Queued(queue, f) == \E k \in 1..Len(queue) : queue[k] = f

\* the script files whose buffer an onDidChangeTextDocument event reports
Edited == {f \in ScriptFiles : doc'[f] # doc[f]}

\* C7: while the coordinator is Refreshing, a document-change trigger for a
\* file leaves that file in the request queue (it is neither dropped nor run
\* at once), and the queue never holds two entries for one path.
C7_TriggersQueued ==
    [][/\ (Refreshing /\ Edited # {}) => \A f \in Edited : Queued(refreshQueue', f)
       /\ \A j, k \in 1..Len(refreshQueue') :
              refreshQueue'[j] = refreshQueue'[k] => j = k]_vars

\* call t, a refreshCaches, completes in this step
FullRefreshCompletes(t) ==
    /\ tasks[t].kind = "refreshCaches"
    /\ InRebuild(t)
    /\ ~InRebuild(t)'

\* C8: when a full refresh completes and the request queue is not empty, the
\* coordinator goes back to Idle and exactly one queued request is taken out
\* of the queue and started (handed to the timer that starts it).
C8_FullRefreshDrainsOne ==
    [][(refreshQueue # <<>> /\ \E t \in Tasks : FullRefreshCompletes(t)) =>
          /\ Idle'
          /\ refreshQueue' = Tail(refreshQueue)
          /\ \E u \in Tasks : /\ tasks'[u].pc = "timer"
                              /\ tasks'[u].uri = Head(refreshQueue)
                              /\ tasks[u].pc # "timer"]_vars

\* triggerUpdateDecorations has got past its waitForCacheRefresh for file f:
\* the debounce timer of f is armed in this step
PastAwaitIdle(f) == f \notin DOMAIN fileTimeouts /\ f \in DOMAIN fileTimeouts'

\* C9: waitForCacheRefresh, called while the coordinator is Refreshing because
\* of refreshCaches, refreshIniFile or refreshFileTokens, resolves only once
\* that refresh has finished and the coordinator is Idle: its caller
\* triggerUpdateDecorations gets past the await only in a step that ends Idle.
C9_AwaitIdleWaits ==
    [][\A f \in FileSet : PastAwaitIdle(f) => Idle']_vars

\* a render of f has been requested and is still to come: its debounce timer
\* is armed, or a triggerUpdateDecorations call for it is suspended, or f is the
\* active editor and a refreshCaches call is in flight, whose caller goes on to
\* updateActiveEditor
RenderPending(f) ==
    \/ f \in DOMAIN fileTimeouts
    \/ \E t \in Tasks : tasks[t].kind = "trigger" /\ tasks[t].uri = f
    \/ activeEditor = f /\ \E t \in Tasks : tasks[t].kind = "refreshCaches"

\* C10: a render of an editor whose file has tokens, requested while the
\* coordinator is Refreshing by activating the editor or by
\* triggerUpdateDecorations, is kept pending for when the coordinator is Idle;
\* it is not discarded.
C10_RenderDeferred ==
    [][\A f \in FileSet :
          (/\ Refreshing
           /\ ~NoTokens(fileTokenCache, f)
           /\ onDidChangeActiveTextEditor(f) \/ triggerUpdateDecorations(f))
              => RenderPending(f)']_vars

\* ------------------------------------------------------------------------
\* The two scanners on their own: updateIniFile and updateFileTokens applied
\* to files whose contents are drawn from bounded sets
\* ------------------------------------------------------------------------

SI == <<"s", "ini">>
SJ == <<"t", "ini">>
SL == <<"s", "lua">>
ST == <<"s", "ts">>
SX == <<"s", "txt">>

ScanIniFiles == {SI, SJ}

ScanTextFiles == {SL, ST, SX}

ScanFileSet == ScanIniFiles \cup ScanTextFiles

\* contents of s.ini: headers, references, partial and padded bracket lines
SIContents ==
    { << <<"[", "a", "]">>, <<"[", "a", "b", "]">>, <<"a", "b">> >>,
      << <<"[", "a", "a", "]">>, <<"a", "a", "a">>, <<"[", "a", "a">> >>,
      << <<"[", "a", "b", "]">>, <<"a">>, <<"[", "]">>, <<" ", "[", "a", "]">> >>,
      << <<"[", "a", "b", "]">>, <<"[", "a", "]", " ">>, <<"[", "a", "]", "a">> >> }

\* contents of t.ini (it may be missing)
SJContents == { << <<"[", "a", "b", "]">>, <<"a">> >>, << <<"[", "a", "]">> >>, Absent }

\* the lines a script or text file can consist of
ScanLines ==
    { <<"'", "a", "b", "'">>, <<"a", "b">>, <<"a", "a", "a">>,
      <<"'", "a", "a", "'">>, <<BackTick, "a", BackTick>>, <<"'", "a", "\"">>,
      <<"a", "'">>, <<"\"", "a">>, <<"'", "a", "'", "a", "'">>, <<"b">> }

InitScan ==
    /\ \E i \in SIContents, j \in SJContents, f \in ScanTextFiles, l \in ScanLines :
           disk = [g \in ScanFileSet |->
                      CASE g = SI -> i
                        [] g = SJ -> j
                        [] g = f  -> <<l>>
                        [] OTHER  -> Absent]
    /\ doc = <<>>
    /\ sectionCache = <<>>
    /\ iniHashCache = <<>>
    /\ lastScanTime = 0
    /\ fileTokenCache = <<>>
    /\ fileHashCache = <<>>
    /\ isRefreshing = FALSE
    /\ refreshQueue = <<>>
    /\ refreshPromise = 0
    /\ isDecorationUpdating = FALSE
    /\ tasks = [t \in Tasks |-> Free]
    /\ activeEditor = NoFile
    /\ decorations = <<>>
    /\ fileTimeouts = <<>>
    /\ picker = NoPicker
    /\ editorView = <<>>
    /\ chunkCache = <<>>
    /\ visibleChunks = <<>>

\* ConfigSectionManager.updateIniFile(uri)
updateIniFile(f) ==
    /\ SetCfg(scanIniFile(Cfg, f, disk[f]))
    /\ UNCHANGED <<envVars, tokVars, isRefreshing, refreshQueue, refreshPromise,
                   isDecorationUpdating, tasks, uiVars>>

\* FileTokenManager.updateFileTokens(filePath)
updateFileTokens(f) ==
    /\ SetTok(scanFileTokens(Tok, Ids, f, disk[f]))
    /\ UNCHANGED <<envVars, cfgVars, isRefreshing, refreshQueue, refreshPromise,
                   isDecorationUpdating, tasks, uiVars>>

NextScan ==
    \/ \E f \in ScanIniFiles : updateIniFile(f)
    \/ \E f \in ScanFileSet : updateFileTokens(f)

SpecScan == InitScan /\ [][NextScan]_vars

\* ------------------------------------------------------------------------
\* Properties of the scanners
\* ------------------------------------------------------------------------

\* C11: a scan of a file whose stored fingerprint is the fingerprint of its
\* content returns false and leaves every SectionRecord, every TokenRecord
\* and every stored fingerprint as it was, for scanIniFile and for
\* scanFileTokens.
C11_RescanNoOp ==
    [][\A f \in ScanFileSet :
          /\ (/\ updateIniFile(f)
              /\ disk[f] # Absent
              /\ f \in DOMAIN iniHashCache
              /\ iniHashCache[f] = getFileHash(disk[f]))
                => (~IniChanged(Cfg, f, disk[f]) /\ UNCHANGED idxVars)
          /\ (updateFileTokens(f) /\ IndexedAsIs(f))
                => (~TokChanged(Tok, Ids, f, disk[f]) /\ UNCHANGED idxVars)]_vars

\* C11: both configuration files and a text file have been scanned, s.ini
\* before t.ini, so that parsing s.ini again would reorder the index
C11_AllScanned ==
    /\ Len(sectionCache) >= 2
    /\ sectionCache[1].uri = SI
    /\ sectionCache[Len(sectionCache)].uri = SJ
    /\ SI \in DOMAIN iniHashCache
    /\ \E f \in ScanTextFiles : IndexedAsIs(f) /\ f \in DOMAIN fileTokenCache
    /\ IndexedAsIs(SI)

\* two recorded ranges <<line, start, end>> share a column
Overlap(r, s) == r[1] = s[1] /\ r[2] < s[3] /\ s[2] < r[3]

\* the ranges recorded for id in the TokenRecord of file f
Recorded(f, id) ==
    IF f \in DOMAIN fileTokenCache /\ id \in DOMAIN fileTokenCache[f]
    THEN {fileTokenCache[f][id][k] : k \in 1..Len(fileTokenCache[f][id])}
    ELSE {}

\* C12: longest-match preference - in every TokenRecord, of whatever file
\* kind, no match recorded for an id overlaps a match recorded for a longer
\* id that contains it.
C12_LongestMatch ==
    \A f \in DOMAIN fileTokenCache :
        \A short, long \in DOMAIN fileTokenCache[f] :
            (Len(short) < Len(long) /\ IndexOf(long, short, 0) # -1) =>
                \A r \in Recorded(f, short), s \in Recorded(f, long) : ~Overlap(r, s)

\* C13: per-line scanning is non-overlapping - in every TokenRecord the
\* ranges recorded for one id are pairwise disjoint, also for an id that
\* overlaps itself ("aa" in "aaa").
C13_DisjointRanges ==
    \A f \in DOMAIN fileTokenCache :
        \A id \in DOMAIN fileTokenCache[f] :
            \A r, s \in Recorded(f, id) : r # s => ~Overlap(r, s)

\* the occurrence of id at 0-based offset k of 1-based line i of file f is in
\* the TokenRecord of f
RecordedAt(f, id, i, k) == <<i - 1, k, k + Len(id)>> \in Recorded(f, id)

\* C14: when a configuration file is scanned, an occurrence of a known id is
\* recorded if and only if the trimmed line it is on is not of the shape
\* [...]: never on a header line, always on a malformed or partial bracket
\* line.
C14_IniAcceptance ==
    [][\A f \in ScanIniFiles :
          (updateFileTokens(f) /\ TokChanged(Tok, Ids, f, disk[f])) =>
              \A id \in Ids : \A i \in 1..Len(disk[f]) : \A k \in 0..Len(disk[f][i]) :
                  OccursAt(disk[f][i], id, k) =>
                      (RecordedAt(f, id, i, k)' <=> ~EndsContent(disk[f][i]))]_vars

\* C15: when a script or text file is scanned, an occurrence of a known id
\* is recorded if and only if, in a .lua file, the characters right before
\* and right after it are both ' or "; in a .ts file, both are ' or " or a
\* backtick; in a text or markup file, always.
C15_ScriptAcceptance ==
    [][\A f \in ScanTextFiles :
          (updateFileTokens(f) /\ TokChanged(Tok, Ids, f, disk[f])) =>
              \A id \in Ids : \A i \in 1..Len(disk[f]) : \A k \in 0..Len(disk[f][i]) :
                  OccursAt(disk[f][i], id, k) =>
                      (RecordedAt(f, id, i, k)' <=>
                          CASE Ext(f) = "lua" ->
                                   /\ CharAt(disk[f][i], k - 1) \in {"'", "\""}
                                   /\ CharAt(disk[f][i], k + Len(id)) \in {"'", "\""}
                            [] Ext(f) = "ts" ->
                                   /\ CharAt(disk[f][i], k - 1) \in {"'", "\"", BackTick}
                                   /\ CharAt(disk[f][i], k + Len(id)) \in {"'", "\"", BackTick}
                            [] OTHER -> TRUE)]_vars

\* C15: the .lua line 'ab' has been scanned with a and ab known: the quoted
\* ab is recorded, the a inside it, which no quote follows, is not
C15_QuotedOnly ==
    /\ disk[SL] = << <<"'", "a", "b", "'">> >>
    /\ {<<"a">>, <<"a", "b">>} \subseteq Ids
    /\ SL \in DOMAIN fileTokenCache
    /\ Recorded(SL, <<"a", "b">>) = {<<0, 1, 3>>}
    /\ Recorded(SL, <<"a">>) = {}

\* the records of the index that file f owns
OwnedBy(cache, f) == {cache[k] : k \in {j \in 1..Len(cache) : cache[j].uri = f}}

\* the content the claim gives the header at 1-based line i: the non-blank
\* lines below it up to the next line that defines a section
RECURSIVE ContentToNextHeader(_, _)
ContentToNextHeader(lines, j) ==
    IF j > Len(lines) \/ IsHeader(Trim(lines[j])) THEN <<>>
    ELSE (IF Trim(lines[j]) # <<>> THEN <<lines[j]>> ELSE <<>>)
         \o ContentToNextHeader(lines, j + 1)

\* C16: when a configuration file is scanned, a line creates a SectionRecord
\* if and only if its trimmed text has the exact shape [identifier]; every
\* other line creates none and, when non-blank and below a header, is part of
\* that header's content, which ends exactly at the next defining line.
C16_HeaderRecognition ==
    [][\A f \in ScanIniFiles :
          (updateIniFile(f) /\ IniChanged(Cfg, f, disk[f])) =>
              /\ \A i \in 1..Len(disk[f]) :
                    IsHeader(Trim(disk[f][i])) =>
                        \E e \in OwnedBy(sectionCache, f)' :
                            e.id = HeaderId(Trim(disk[f][i]))
              /\ \A e \in OwnedBy(sectionCache, f)' :
                    /\ IsHeader(Trim(disk[f][e.line + 1]))
                    /\ e.id = HeaderId(Trim(disk[f][e.line + 1]))
                    /\ e.content = ContentToNextHeader(disk[f], e.line + 2)]_vars

\* ------------------------------------------------------------------------
\* Properties of the full rescan
\* ------------------------------------------------------------------------

\* C17: when scanAllSections has completed, every SectionRecord of the index
\* is owned by a configuration file that exists and is readable; the records
\* of a deleted or unreadable file are all gone.
C17_OwnersExist ==
    [][(\E t \in Tasks : PerformScanAllSections(t)) =>
          (\A e \in UNION {OwnedBy(sectionCache, f) : f \in IniFiles} :
              disk[e.uri] # Absent)']_vars

\* ------------------------------------------------------------------------
\* IniSectionDecorationProvider: chunked rendering of large files
\* ------------------------------------------------------------------------

CHUNK_SIZE == 200
MAX_VISIBLE_CHUNKS == 15
PRELOAD_BUFFER == 500

Min(a, b) == IF a < b THEN a ELSE b
Max(a, b) == IF a > b THEN a ELSE b

\* a chunk window that spans the whole cap on either side of its center
WholeMax == MAX_VISIBLE_CHUNKS

\* a chunk index rounded up instead of down
CeilChunkIndex(lineNumber) == (lineNumber + CHUNK_SIZE - 1) \div CHUNK_SIZE

\* a center taken from the first visible line instead of the midpoint
FirstVisibleChunk(view) == view.visible[1] \div CHUNK_SIZE

getChunkIndex(lineNumber) == lineNumber \div CHUNK_SIZE

\* getChunkRange: <<startLine, endLine, does it go to the end of endLine>>
getChunkRange(chunkIndex, totalLines) ==
    << chunkIndex * CHUNK_SIZE,
       Min(chunkIndex * CHUNK_SIZE + CHUNK_SIZE - 1, totalLines - 1),
       TRUE >>

isUltraLargeFile(view) == view.lineCount > 5000

isLargeFile(view) == view.lineCount > 1000

\* Math.floor(MAX_VISIBLE_CHUNKS / 2)
HalfMax == MAX_VISIBLE_CHUNKS \div 2

\* getChunkIndex((firstVisible.start.line + lastVisible.end.line) / 2)
CenterChunk(view) == getChunkIndex((view.visible[1] + view.visible[2]) \div 2)

\* getSmartVisibleRange of an editor whose visibleRanges go from line
\* visible[1] to line visible[2] (visible = <<>>: no visible range)
getSmartVisibleRange(view) ==
    IF view.visible = <<>>
    THEN [range |-> <<0, Min(view.lineCount - 1, 500), FALSE>>, chunks |-> {0, 1, 2}]
    ELSE LET bufferStart == Max(0, view.visible[1] - PRELOAD_BUFFER)
             bufferEnd == Min(view.lineCount - 1, view.visible[2] + PRELOAD_BUFFER)
             chunks == getChunkIndex(bufferStart)..getChunkIndex(bufferEnd)
         IN  [range |-> <<bufferStart, bufferEnd, TRUE>>,
              chunks |->
                  IF Cardinality(chunks) > MAX_VISIBLE_CHUNKS
                  THEN {i \in (CenterChunk(view) - HalfMax)..(CenterChunk(view) + HalfMax) :
                           i >= 0 /\ i <= getChunkIndex(view.lineCount - 1)}
                  ELSE chunks]

\* the recorded ranges r with range.intersection(r) defined, for a range
\* from the start of its first line to column 0 or to the end of its last line
RangesWithin(tokenMap, range) ==
    {r \in AllRanges(tokenMap) :
        /\ range[1] <= r[1]
        /\ \/ r[1] < range[2]
           \/ r[1] = range[2] /\ (range[3] \/ r[2] = 0)}

buildChunkDecorations(view, chunkIndex, tokenMap) ==
    RangesWithin(tokenMap, getChunkRange(chunkIndex, view.lineCount))

\* fileChunkCache after the ultra-large branch of updateDecorations: the
\* chunks no longer visible are deleted, the missing visible ones are built
RenderedChunks(old, view, tokenMap) ==
    [c \in getSmartVisibleRange(view).chunks |->
        IF c \in DOMAIN old THEN old[c] ELSE buildChunkDecorations(view, c, tokenMap)]

\* the editor of a text file whose length and viewport are drawn from bounded
\* sets
FU == <<"u", "txt">>

LineCounts == {800, 1500, 5001, 9000}

\* visibleRanges of a document of n lines: none, or from a line to a line
Views(n) ==
    {<<>>} \cup {v \in {0, 150, 1100, 2600, 4400, n - 1} \X {0, 150, 1100, 2600, 4400, n - 1} :
                    v[1] <= v[2] /\ v[2] <= n - 1}

AllViews == UNION {Views(n) : n \in LineCounts}

\* the TokenRecord of the file: the matches of one id on lines below n
BigTokens(n) ==
    (<<"x">> :> SelectSeq(<< <<0, 0, 1>>, <<450, 3, 4>>, <<500, 2, 3>>, <<1300, 0, 1>>,
                             <<3000, 0, 1>>, <<5000, 1, 2>>, <<8100, 0, 1>> >>,
                          LAMBDA r : r[1] < n))

InitChunks ==
    /\ \E n \in LineCounts : \E v \in Views(n) :
          /\ editorView = (FU :> [lineCount |-> n, visible |-> v])
          /\ fileTokenCache = (FU :> BigTokens(n))
    /\ disk = <<>>
    /\ doc = <<>>
    /\ sectionCache = <<>>
    /\ iniHashCache = <<>>
    /\ lastScanTime = 0
    /\ fileHashCache = <<>>
    /\ isRefreshing = FALSE
    /\ refreshQueue = <<>>
    /\ refreshPromise = 0
    /\ isDecorationUpdating = FALSE
    /\ tasks = [t \in Tasks |-> Free]
    /\ activeEditor = FU
    /\ decorations = <<>>
    /\ fileTimeouts = <<>>
    /\ picker = NoPicker
    /\ chunkCache = <<>>
    /\ visibleChunks = <<>>

\* the user scrolls, folds or resizes: the visibleRanges of the editor change
ScrollTo(f, v) ==
    /\ f \in DOMAIN editorView
    /\ v \in Views(editorView[f].lineCount) \ {editorView[f].visible}
    /\ editorView' = [editorView EXCEPT ![f].visible = v]
    /\ UNCHANGED <<envVars, idxVars, isRefreshing, refreshQueue, refreshPromise,
                   isDecorationUpdating, tasks, activeEditor, decorations,
                   fileTimeouts, picker, chunkCache, visibleChunks>>

\* IniSectionDecorationProvider.updateDecorations(editor) for a document of
\* any length: chunks above 5000 lines, the smart range above 1000 lines, and
\* every range otherwise
RenderEditor(f) ==
    /\ f \in DOMAIN editorView
    /\ IF isRefreshing \/ NoTokens(fileTokenCache, f)
       THEN UNCHANGED <<decorations, chunkCache, visibleChunks>>
       ELSE LET view == editorView[f]
                tokenMap == fileTokenCache[f]
                old == IF f \in DOMAIN chunkCache THEN chunkCache[f] ELSE <<>>
                fileChunkCache == RenderedChunks(old, view, tokenMap)
            IN  IF isUltraLargeFile(view)
                THEN /\ chunkCache' = (f :> fileChunkCache) @@ chunkCache
                     /\ visibleChunks' =
                            (f :> getSmartVisibleRange(view).chunks) @@ visibleChunks
                     /\ decorations' =
                            (f :> UNION {fileChunkCache[c] : c \in DOMAIN fileChunkCache})
                                @@ decorations
                ELSE /\ decorations' =
                            IF isLargeFile(view)
                            THEN (f :> RangesWithin(tokenMap, getSmartVisibleRange(view).range))
                                     @@ decorations
                            ELSE updateDecorations(decorations, fileTokenCache, f)
                     /\ UNCHANGED <<chunkCache, visibleChunks>>
    /\ UNCHANGED <<envVars, idxVars, isRefreshing, refreshQueue, refreshPromise,
                   isDecorationUpdating, tasks, activeEditor, fileTimeouts, picker,
                   editorView>>

\* IniSectionDecorationProvider.onScroll(editor); the file has renderMetrics
\* exactly when it has been rendered since it was opened
onScroll(f) ==
    /\ f \in DOMAIN editorView
    /\ visibleChunks' =
           IF isUltraLargeFile(editorView[f]) /\ f \in DOMAIN decorations
           THEN (f :> getSmartVisibleRange(editorView[f]).chunks) @@ visibleChunks
           ELSE visibleChunks
    /\ UNCHANGED <<envVars, idxVars, isRefreshing, refreshQueue, refreshPromise,
                   isDecorationUpdating, tasks, activeEditor, decorations,
                   fileTimeouts, picker, editorView, chunkCache>>

NextChunks ==
    \/ \E v \in AllViews : ScrollTo(FU, v)
    \/ RenderEditor(FU)
    \/ onScroll(FU)

SpecChunks == InitChunks /\ [][NextChunks]_vars

\* ------------------------------------------------------------------------
\* Properties of chunked rendering
\* ------------------------------------------------------------------------

\* C18: whatever the file length, the viewport and the renders and scrolls
\* so far, the chunk set getSmartVisibleRange computes, the visible chunk set
\* kept for a file and the chunks held in its chunk cache are never more than
\* MAX_VISIBLE_CHUNKS.
C18_ChunkCap ==
    \A f \in DOMAIN editorView :
        /\ Cardinality(getSmartVisibleRange(editorView[f]).chunks) <= MAX_VISIBLE_CHUNKS
        /\ f \in DOMAIN visibleChunks => Cardinality(visibleChunks[f]) <= MAX_VISIBLE_CHUNKS
        /\ f \in DOMAIN chunkCache =>
               Cardinality(DOMAIN chunkCache[f]) <= MAX_VISIBLE_CHUNKS

\* C18: a 9000-line file (45 chunks) whose visible ranges span the whole file
\* has been rendered, and its chunk cache holds the full 15 chunks
C18_CacheAtCap ==
    /\ editorView[FU] = [lineCount |-> 9000, visible |-> <<0, 8999>>]
    /\ FU \in DOMAIN chunkCache
    /\ Cardinality(DOMAIN chunkCache[FU]) = MAX_VISIBLE_CHUNKS

\* the chunks of a file of n lines that have a line in lo..hi
ChunksMeeting(n, lo, hi) ==
    {c \in 0..(n \div CHUNK_SIZE) :
        /\ c * CHUNK_SIZE <= n - 1
        /\ c * CHUNK_SIZE <= hi
        /\ c * CHUNK_SIZE + CHUNK_SIZE - 1 >= lo}

\* the chunks that meet the viewport widened by the margin and clipped to
\* the file
WindowChunks(view) ==
    ChunksMeeting(view.lineCount,
                  Max(0, view.visible[1] - PRELOAD_BUFFER),
                  Min(view.lineCount - 1, view.visible[2] + PRELOAD_BUFFER))

\* C19: for a file of more than 5000 lines whose widened viewport meets at
\* most MAX_VISIBLE_CHUNKS chunks, the active chunk set is exactly the set of
\* those chunks; and every chunk index of an active set, computed or kept,
\* is between 0 and the index of the chunk of the last line.
C19_ActiveChunks ==
    \A f \in DOMAIN editorView :
        LET view == editorView[f]
            active == getSmartVisibleRange(view).chunks
            kept == active \cup (IF f \in DOMAIN visibleChunks THEN visibleChunks[f] ELSE {})
                           \cup (IF f \in DOMAIN chunkCache THEN DOMAIN chunkCache[f] ELSE {})
        IN  isUltraLargeFile(view) =>
                /\ (/\ view.visible # <<>>
                    /\ Cardinality(WindowChunks(view)) <= MAX_VISIBLE_CHUNKS)
                        => active = WindowChunks(view)
                /\ \A c \in kept : c >= 0 /\ c * CHUNK_SIZE <= view.lineCount - 1

\* C19: lines 2600..4400 of a 9000-line file are visible and rendered; the
\* widened viewport 2100..4900 meets the 15 chunks 10..24, which are the
\* visible chunk set and the keys of the chunk cache
C19_WindowRendered ==
    /\ editorView[FU] = [lineCount |-> 9000, visible |-> <<2600, 4400>>]
    /\ FU \in DOMAIN visibleChunks /\ visibleChunks[FU] = 10..24
    /\ FU \in DOMAIN chunkCache /\ DOMAIN chunkCache[FU] = 10..24

\* the index of the chunk of the last line of a file of n lines
LastChunk(n) ==
    CHOOSE c \in 0..(n \div CHUNK_SIZE) :
        c * CHUNK_SIZE <= n - 1 /\ n - 1 < (c + 1) * CHUNK_SIZE

\* C20: when the widened viewport meets more than MAX_VISIBLE_CHUNKS chunks,
\* the active chunk set that updateDecorations and onScroll keep is the chunk
\* holding the midpoint of the visible lines with the same number of chunks,
\* half the cap, on each side of it, less the indices before the first or
\* after the last chunk of the file.
C20_Recentered ==
    [][\A f \in DOMAIN editorView :
          LET view == editorView[f]
              half == (MAX_VISIBLE_CHUNKS - 1) \div 2
          IN  (/\ RenderEditor(f) \/ onScroll(f)
               /\ f \in DOMAIN visibleChunks'
               /\ isUltraLargeFile(view)
               /\ view.visible # <<>>
               /\ Cardinality(WindowChunks(view)) > MAX_VISIBLE_CHUNKS) =>
                  \E mid \in 0..LastChunk(view.lineCount) :
                      /\ 2 * mid * CHUNK_SIZE <= view.visible[1] + view.visible[2]
                      /\ view.visible[1] + view.visible[2] < 2 * (mid + 1) * CHUNK_SIZE
                      /\ visibleChunks'[f] =
                             {c \in (mid - half)..(mid + half) :
                                 c >= 0 /\ c <= LastChunk(view.lineCount)}]_vars

\* C20: lines 2600..5000 of a 5001-line file (chunks 0..25) are visible and
\* rendered: the widened viewport meets the 16 chunks 10..25, the midpoint
\* 3800 is in chunk 19, and the active set 12..25 is cut at the last chunk
C20_CutAtLastChunk ==
    /\ editorView[FU] = [lineCount |-> 5001, visible |-> <<2600, 5000>>]
    /\ FU \in DOMAIN visibleChunks /\ visibleChunks[FU] = 12..25
    /\ FU \in DOMAIN chunkCache /\ DOMAIN chunkCache[FU] = 12..25

\* ------------------------------------------------------------------------
\* Rendering while TokenRecords are rebuilt: two editors, a very large file
\* and a short one, whose TokenRecords change between renders
\* ------------------------------------------------------------------------

FV == <<"v", "txt">>

\* the TokenRecords a scan of the changing text can store: no match, or the
\* matches of one id
TokenRecords ==
    { <<>>,
      (<<"x">> :> << <<0, 0, 1>>, <<450, 3, 4>> >>),
      (<<"x">> :> << <<0, 0, 1>>, <<150, 1, 2>>, <<700, 1, 2>>, <<3000, 0, 1>> >>) }

InitRender ==
    /\ \E v \in {<<0, 150>>, <<2600, 4400>>}, n \in {800, 1500} :
          editorView = (FU :> [lineCount |-> 9000, visible |-> v])
                       @@ (FV :> [lineCount |-> n, visible |-> <<0, 150>>])
    /\ fileTokenCache = [f \in {FU, FV} |-> (<<"x">> :> << <<0, 0, 1>>, <<450, 3, 4>> >>)]
    /\ disk = <<>>
    /\ doc = <<>>
    /\ sectionCache = <<>>
    /\ iniHashCache = <<>>
    /\ lastScanTime = 0
    /\ fileHashCache = <<>>
    /\ isRefreshing = FALSE
    /\ refreshQueue = <<>>
    /\ refreshPromise = 0
    /\ isDecorationUpdating = FALSE
    /\ tasks = [t \in Tasks |-> Free]
    /\ activeEditor = FU
    /\ decorations = <<>>
    /\ fileTimeouts = <<>>
    /\ picker = NoPicker
    /\ chunkCache = <<>>
    /\ visibleChunks = <<>>

\* a rebuild of the TokenRecord of f has completed (refreshFileTokens, or
\* refreshAllTokens after a configuration change): scanFileTokens has stored
\* the tokenMap of the new text, every match on a line of the document
TokenRecordRebuilt(f, tokenMap) ==
    /\ f \in DOMAIN editorView
    /\ \A r \in AllRanges(tokenMap) : r[1] < editorView[f].lineCount
    /\ IF f \in DOMAIN fileTokenCache THEN fileTokenCache[f] # tokenMap ELSE TRUE
    /\ fileTokenCache' = (f :> tokenMap) @@ fileTokenCache
    /\ UNCHANGED <<envVars, cfgVars, fileHashCache, isRefreshing, refreshQueue,
                   refreshPromise, isDecorationUpdating, tasks, uiVars>>

\* updateDecorations(editor of f) when editor.setDecorations throws: the
\* chunk state of a very large file has been updated by then, the highlights
\* and the later caches have not
RenderFails(f) ==
    /\ f \in DOMAIN editorView
    /\ ~isRefreshing
    /\ ~NoTokens(fileTokenCache, f)
    /\ LET view == editorView[f]
           old == IF f \in DOMAIN chunkCache THEN chunkCache[f] ELSE <<>>
       IN  IF isUltraLargeFile(view)
           THEN /\ chunkCache' =
                       (f :> RenderedChunks(old, view, fileTokenCache[f])) @@ chunkCache
                /\ visibleChunks' =
                       (f :> getSmartVisibleRange(view).chunks) @@ visibleChunks
           ELSE UNCHANGED <<chunkCache, visibleChunks>>
    /\ UNCHANGED <<envVars, idxVars, isRefreshing, refreshQueue, refreshPromise,
                   isDecorationUpdating, tasks, activeEditor, decorations,
                   fileTimeouts, picker, editorView>>

NextRender ==
    \/ \E f \in {FU, FV} : \E v \in {<<0, 150>>, <<2600, 4400>>} : ScrollTo(f, v)
    \/ \E f \in {FU, FV} : RenderEditor(f)
    \/ \E f \in {FU, FV} : RenderFails(f)
    \/ \E f \in {FU, FV} : onScroll(f)
    \/ \E f \in {FU, FV} : \E tokenMap \in TokenRecords : TokenRecordRebuilt(f, tokenMap)
    \/ \E f \in {FU, FV} : triggerUpdateDecorations(f)
    \/ \E f \in {FU, FV} : onDidCloseTextDocument(f)

SpecRender == InitRender /\ [][NextRender]_vars

\* ------------------------------------------------------------------------
\* Properties of rendering
\* ------------------------------------------------------------------------

\* C21: a render of a very large file uses no chunk contents computed from
\* an earlier TokenRecord: after it, the ranges of every active chunk are the
\* ranges the current TokenRecord has on the lines of that chunk.
C21_ChunksInvalidated ==
    [][\A f \in DOMAIN editorView :
          (/\ RenderEditor(f)
           /\ isUltraLargeFile(editorView[f])
           /\ ~NoTokens(fileTokenCache, f)) =>
              \A c \in DOMAIN chunkCache'[f] :
                  chunkCache'[f][c] =
                      buildChunkDecorations(editorView[f], c, fileTokenCache[f])]_vars

\* the ranges the TokenRecord yields for the tier and window of the view
ExpectedRanges(view, tokenMap) ==
    IF isUltraLargeFile(view)
    THEN UNION {buildChunkDecorations(view, c, tokenMap) :
                    c \in getSmartVisibleRange(view).chunks}
    ELSE IF isLargeFile(view)
         THEN RangesWithin(tokenMap, getSmartVisibleRange(view).range)
         ELSE AllRanges(tokenMap)

\* C22: a render while no refresh is in progress replaces the highlight set of
\* the file: after it the set is exactly the ranges of the file's current
\* TokenRecord for its tier and window, also when that record is empty.  Stated
\* on the state before the render: no render that can happen there ends with
\* another highlight set.
C22_HighlightsReplaced ==
    \A f \in DOMAIN editorView :
        (Idle /\ f \in DOMAIN fileTokenCache) =>
            ~ENABLED (/\ RenderEditor(f)
                      /\ ExpectedRanges(editorView[f], fileTokenCache[f]) #
                             (IF f \in DOMAIN decorations'
                              THEN decorations'[f] ELSE {}))

\* a step in which the editor of f is rendered: the debounce timer of f fires,
\* or the editor is activated (updateActiveEditor builds a missing TokenRecord
\* itself before it renders)
Renders(f) == DebounceFires(f) \/ onDidChangeActiveTextEditor(f)

\* a step that asks the coordinator for a refresh while it is Idle: the lock is
\* taken, a path is queued, or a call is suspended inside the coordinator
AsksCoordinator == isRefreshing' \/ refreshQueue' # refreshQueue \/ tasks' # tasks

\* C23: a render that finds no TokenRecord for the file leaves the highlight
\* set and the decoration caches as they are, and a rebuild of the file's
\* TokenRecord is requested from the RefreshCoordinator.
C23_RebuildRequested ==
    [][\A f \in Editors :
          (/\ Idle
           /\ Renders(f)
           /\ NoTokens(fileTokenCache', f)) =>
              /\ decorations' = decorations
              /\ <<chunkCache, visibleChunks>>' = <<chunkCache, visibleChunks>>
              /\ AsksCoordinator]_vars

\* C24: once a scroll of a rendered very large file has been processed, the
\* chunks cached for the file are exactly the chunks active for the new
\* viewport.
C24_ScrollSyncsChunks ==
    [][\A f \in DOMAIN editorView :
          (/\ onScroll(f)
           /\ isUltraLargeFile(editorView[f])
           /\ f \in DOMAIN chunkCache) =>
              DOMAIN chunkCache'[f] = getSmartVisibleRange(editorView[f]).chunks]_vars

\* the ranges of a TokenRecord a render is to output for a view with a
\* viewport: all of them up to 1000 lines, those on the lines of the viewport
\* widened by PRELOAD_BUFFER up to 5000 lines, those on the lines of the active
\* chunks above
TierRanges(view, tokenMap) ==
    {r \in AllRanges(tokenMap) :
        IF view.lineCount <= 1000 THEN TRUE
        ELSE IF view.lineCount <= 5000
             THEN /\ r[1] >= view.visible[1] - PRELOAD_BUFFER
                  /\ r[1] <= view.visible[2] + PRELOAD_BUFFER
             ELSE \E c \in getSmartVisibleRange(view).chunks :
                      c * CHUNK_SIZE <= r[1] /\ r[1] < (c + 1) * CHUNK_SIZE}

\* C25: a render of a file with a TokenRecord outputs the ranges of its tier:
\* every range of the record for a small file, the ranges on the lines of the
\* widened viewport for a large file, the ranges in the active chunks for a
\* very large file.  Stated on the state before the render.
C25_TieredRendering ==
    \A f \in DOMAIN editorView :
        (/\ Idle
         /\ ~NoTokens(fileTokenCache, f)
         /\ editorView[f].visible # <<>>) =>
            ~ENABLED (/\ RenderEditor(f)
                      /\ decorations'[f] # TierRanges(editorView[f], fileTokenCache[f]))

\* a triggerUpdateDecorations call for f is suspended in waitForCacheRefresh
TriggerWaiting(f) == \E t \in Tasks : tasks[t].kind = "trigger" /\ tasks[t].uri = f

\* at most one timer is pending per file, and a trigger that gets to setTimeout
\* leaves exactly one
OneTimerPerFile ==
    /\ \A f \in DOMAIN fileTimeouts' : fileTimeouts'[f] = 1
    /\ \A f \in Editors :
           (triggerUpdateDecorations(f) /\ ~(isRefreshing /\ WaitsForRefresh))
               => f \in DOMAIN fileTimeouts' /\ fileTimeouts'[f] = 1

DecorationState(b) ==
    << IF b \in DOMAIN decorations THEN <<decorations[b]>> ELSE <<>>,
       IF b \in DOMAIN chunkCache THEN <<chunkCache[b]>> ELSE <<>>,
       IF b \in DOMAIN visibleChunks THEN <<visibleChunks[b]>> ELSE <<>>,
       IF b \in DOMAIN fileTimeouts THEN <<fileTimeouts[b]>> ELSE <<>> >>

\* C27: a trigger, a render, a failed render, a scroll or the close of file a
\* leaves what the decoration provider holds for any other file b unchanged.
C27_PerFileIsolation ==
    [][\A a \in {FU, FV} : \A b \in {FU, FV} \ {a} :
          (\/ triggerUpdateDecorations(a)
           \/ RenderEditor(a)
           \/ RenderFails(a)
           \/ onScroll(a)
           \/ onDidCloseTextDocument(a)) =>
              DecorationState(b)' = DecorationState(b)]_vars

\* C27: u.txt has been closed after it had been rendered, and v.txt still has
\* its highlights and its pending timer
C27_OtherFileKept ==
    /\ FU \notin DOMAIN fileTokenCache
    /\ FU \notin DOMAIN chunkCache
    /\ FV \in DOMAIN decorations /\ decorations[FV] # {}
    /\ FV \in DOMAIN fileTimeouts

\* ------------------------------------------------------------------------
\* The extension while no script document is open: m.lua has been closed and
\* is not opened again, the editor of a.ini comes and goes, refreshes run
\* ------------------------------------------------------------------------

InitClosed ==
    /\ disk = [f \in FileSet |-> InitialContent(f)]
    /\ doc = <<>>
    /\ sectionCache = <<>>
    /\ iniHashCache = <<>>
    /\ lastScanTime = 0
    /\ fileTokenCache = <<>>
    /\ fileHashCache = <<>>
    /\ isRefreshing = FALSE
    /\ refreshQueue = <<>>
    /\ refreshPromise = 0
    /\ isDecorationUpdating = FALSE
    /\ tasks = [t \in Tasks |-> Free]
    /\ activeEditor = NoFile
    /\ decorations = <<>>
    /\ fileTimeouts = <<>>
    /\ picker = NoPicker
    /\ editorView = <<>>
    /\ chunkCache = <<>>
    /\ visibleChunks = <<>>

NextClosed ==
    \/ Internal
    \/ CallRefreshCaches
    \/ \E f \in IniFiles : CallRefreshIniFile(f)
    \/ onDidChangeActiveTextEditor(FA)
    \/ triggerUpdateDecorations(FA)
    \/ DebounceFires(FA)
    \/ \E f \in Editors : onDidCloseTextDocument(f)

SpecClosed == InitClosed /\ [][NextClosed]_vars

\* nothing is cached for file f: no TokenRecord, no token fingerprint, no
\* cached ranges, chunks or active chunk set, no pending debounce timer
Forgotten(f) ==
    /\ f \notin DOMAIN fileTokenCache /\ f \notin DOMAIN fileHashCache
    /\ f \notin DOMAIN decorations
    /\ f \notin DOMAIN chunkCache /\ f \notin DOMAIN visibleChunks
    /\ f \notin DOMAIN fileTimeouts

\* C28: the close of a file removes everything cached for it, and as long as
\* its document is not open again getFileTokens returns undefined for it.
C28_ClosedFileForgotten ==
    [][/\ \A f \in Editors : onDidCloseTextDocument(f) => Forgotten(f)'
       /\ \A f \in ScriptFiles : f \notin DOMAIN doc' => f \notin DOMAIN fileTokenCache']_vars

\* ------------------------------------------------------------------------
\* Refresh cycles that fail: the indices hold the committed state of the
\* workspace the extension was activated in, an ini file has changed since,
\* and refreshCaches cycles start from that committed state
\* ------------------------------------------------------------------------

\* scanAllFiles: the pattern loop from pattern p on
RECURSIVE ScanFrom(_, _, _, _)
ScanFrom(tok, ids, p, d) ==
    IF p > Len(Patterns) THEN tok
    ELSE Let(LAMBDA scanned : ScanFrom(scanned, ids, p + 1, d), ScanPattern(tok, ids, p, d))

\* the SectionIndex and the TokenIndex a full refresh builds for the initial
\* workspace
GoodCfg ==
    scanAllSections([sections |-> <<>>, hashes |-> <<>>],
                    [f \in FileSet |-> InitialContent(f)])

GoodTok ==
    ScanFrom(EmptyTok, getAllSectionIds(GoodCfg.sections), 1,
             [f \in FileSet |-> InitialContent(f)])

InitFailing ==
    /\ \E f \in IniFiles : \E c \in (Contents(f) \cup {Absent}) \ {InitialContent(f)} :
          disk = [g \in FileSet |-> IF g = f THEN c ELSE InitialContent(g)]
    /\ doc = [f \in ScriptFiles |-> InitialContent(f)]
    /\ sectionCache = GoodCfg.sections
    /\ iniHashCache = GoodCfg.hashes
    /\ lastScanTime = 0
    /\ fileTokenCache = GoodTok.tokens
    /\ fileHashCache = GoodTok.hashes
    /\ isRefreshing = FALSE
    /\ refreshQueue = <<>>
    /\ refreshPromise = 0
    /\ isDecorationUpdating = FALSE
    /\ tasks = [t \in Tasks |-> Free]
    /\ activeEditor = NoFile
    /\ decorations = <<>>
    /\ fileTimeouts = <<>>
    /\ picker = NoPicker
    /\ editorView = <<>>
    /\ chunkCache = <<>>
    /\ visibleChunks = <<>>

\* scanAllFiles: vscode.workspace.findFiles rejects for the pattern the loop
\* has got to; the catch block logs the error and scanAllFiles returns, so
\* the refresh goes on as after a complete scan
ScanAllFilesThrows(t) ==
    /\ tasks[t].pc = "scanAllFiles"
    /\ IF tasks[t].kind = "refreshCaches"
       THEN /\ UNCHANGED cfgVars
            /\ Complete(t, sectionCache, Tok, FALSE)
       ELSE /\ tasks' = [tasks EXCEPT ![t].pc = "delay", ![t].pat = 0]
            /\ UNCHANGED <<envVars, idxVars, isRefreshing, refreshQueue,
                           refreshPromise, isDecorationUpdating, uiVars>>

\* refreshCaches called while the indices hold the committed state
RefreshCommitted ==
    /\ sectionCache = GoodCfg.sections
    /\ fileTokenCache = GoodTok.tokens
    /\ CallRefreshCaches

NextFailing ==
    \/ RefreshCommitted
    \/ \E t \in Tasks : PerformScanAllSections(t)
    \/ \E t \in Tasks : PerformThrows(t)
    \/ \E t \in Tasks : ScanAllFilesStep(t)
    \/ \E t \in Tasks : ScanAllFilesThrows(t)
    \/ \E id \in IdUniverse : goToReferences(id)

SpecFailing == InitFailing /\ [][NextFailing]_vars

\* the end of a refresh cycle in which an error was thrown
CycleFails(t) == PerformThrows(t) \/ ScanAllFilesThrows(t)

\* C29: a refresh cycle that fails leaves the SectionIndex and the TokenIndex
\* with the contents they had when the cycle started.
C29_FailedCyclePreserves ==
    [][\A t \in Tasks :
          CycleFails(t) =>
              /\ sectionCache' = GoodCfg.sections
              /\ fileTokenCache' = GoodTok.tokens]_vars

\* ------------------------------------------------------------------------
\* Whole scans of a workspace with unreadable files: findFiles lists a file,
\* reading it throws
\* ------------------------------------------------------------------------

\* the orders in which findFiles can list the .ini files, and all the files
\* over the patterns of scanAllFiles
IniOrders == { <<SI, SJ>>, <<SJ, SI>> }

TokOrders == { <<SI, SJ, SL, SX, ST>>, <<SJ, SI, SL, SX, ST>> }

\* ConfigSectionManager.scanAllSections with findFiles returning uris
RunScanAllSections(uris) ==
    /\ SetCfg(ScanIniUris(Cfg, uris, disk))
    /\ UNCHANGED <<envVars, tokVars, isRefreshing, refreshQueue, refreshPromise,
                   isDecorationUpdating, tasks, uiVars>>

\* FileTokenManager.scanAllFiles with findFiles returning uris over its patterns
RunScanAllFiles(uris) ==
    /\ SetTok(ScanTokUris(Tok, Ids, uris, disk))
    /\ UNCHANGED <<envVars, cfgVars, isRefreshing, refreshQueue, refreshPromise,
                   isDecorationUpdating, tasks, uiVars>>

\* a file that could be read can no longer be read
BecomesUnreadable(f) ==
    /\ disk[f] # Absent
    /\ disk' = [disk EXCEPT ![f] = Absent]
    /\ UNCHANGED <<doc, idxVars, isRefreshing, refreshQueue, refreshPromise,
                   isDecorationUpdating, tasks, uiVars>>

NextSkip ==
    \/ \E uris \in IniOrders : RunScanAllSections(uris)
    \/ \E uris \in TokOrders : RunScanAllFiles(uris)
    \/ \E f \in ScanFileSet : BecomesUnreadable(f)

SpecSkip == InitScan /\ [][NextSkip]_vars

\* the files of an enumeration that can be read
ReadableOf(uris) == SelectSeq(uris, LAMBDA f : disk[f] # Absent)

\* C30: a scan of all ini files, or of all files for tokens, in which some
\* enumerated files cannot be read ends with the indices it would end with
\* if those files had not been enumerated: every other file is scanned and
\* indexed all the same.  Stated on the state before the scan: no scan that can
\* happen there ends otherwise.
C30_UnreadableSkipped ==
    /\ \A uris \in IniOrders :
           ~ENABLED (/\ RunScanAllSections(uris)
                     /\ <<sectionCache', iniHashCache'>> #
                            << ScanIniUris(Cfg, ReadableOf(uris), disk).sections,
                               ScanIniUris(Cfg, ReadableOf(uris), disk).hashes >>)
    /\ \A uris \in TokOrders :
           ~ENABLED (/\ RunScanAllFiles(uris)
                     /\ <<fileTokenCache', fileHashCache'>> #
                            << ScanTokUris(Tok, Ids, ReadableOf(uris), disk).tokens,
                               ScanTokUris(Tok, Ids, ReadableOf(uris), disk).hashes >>)

\* C30: t.ini cannot be read and is not indexed, s.ini is indexed, and so is a
\* text file listed after one that cannot be read
C30_OthersIndexed ==
    /\ disk[SJ] = Absent /\ SJ \notin DOMAIN iniHashCache
    /\ SI \in DOMAIN iniHashCache /\ OwnedBy(sectionCache, SI) # {}
    /\ disk[SL] = Absent
    /\ \E f \in {SX, ST} : f \in DOMAIN fileTokenCache /\ DOMAIN fileTokenCache[f] # {}

\* ------------------------------------------------------------------------
\* Properties of the readers
\* ------------------------------------------------------------------------

\* every accepted occurrence of id in the workspace files, as <<file, range>>
Occurrences(id) ==
    UNION {{<<f, r>> : r \in AllRanges(TokenMap(Ext(f), disk[f], {id}))} :
              f \in {g \in FileSet : disk[g] # Absent}}

\* C31: when the coordinator is Idle, the reference list goToReferences hands
\* to the picker for a defined id holds every accepted occurrence of the id
\* in every workspace file, the file of the definition and the files that
\* were opened and closed included.
C31_AllReferencesListed ==
    [][\A id \in IdUniverse :
          (Idle /\ goToReferences(id)) => Occurrences(id) \subseteq picker'.refs]_vars

\* a step in which a refreshCaches call returns to its caller: a call that
\* was running or awaiting the running refresh ends without an error, or the
\* call of a save handler finds a refresh without promise running and returns
\* at once
RefreshCachesReturns ==
    \/ /\ \E t \in Tasks : tasks[t].kind = "refreshCaches" /\ tasks'[t] = Free
       /\ ~\E t \in Tasks : PerformThrows(t)
    \/ /\ isRefreshing /\ ~WaitsForRefresh
       /\ \E f \in IniFiles : \E c \in Contents(f) : onDidSaveTextDocument(f, c)

\* the SectionIndex was built from the content configuration file f has now
ScannedAsIs(f) ==
    /\ f \in DOMAIN iniHashCache
    /\ iniHashCache[f] = getFileHash(disk[f])

\* C32: when a refreshCaches call returns, the SectionIndex has been built from
\* the content every configuration file had when the call was made (the files
\* change only in saves, and each save makes such a call), whatever refresh
\* was running at the time of the call.
C32_NoLostUpdate ==
    [][RefreshCachesReturns =>
          \A f \in IniFiles : disk'[f] # Absent => ScannedAsIs(f)']_vars

\* no further call arrives from outside: from some point on the only steps
\* are those of the running refreshes and of the drain timers
NoFurtherTriggers == <>[][Internal]_vars

\* C33: a path added to refreshQueue while the coordinator is Refreshing is
\* eventually refreshed and the queue becomes empty, whichever refresh was in
\* flight when it was queued, provided no further trigger arrives (every
\* refresh terminates: the steps of the running refreshes are fair).
C33_QueueEventuallyDrained ==
    NoFurtherTriggers => ((refreshQueue # <<>>) ~> (refreshQueue = <<>>))

\* C34: when a content change of an open script or text file is processed by
\* the single-file refresh (the coordinator is Idle and some id is known), the
\* TokenRecord of the file is afterwards the scan of the edited document
\* content against the unchanged identifier set.
C34_EditedContentScanned ==
    [][\A f \in ScriptFiles : \A c \in Contents(f) :
          (Idle /\ Ids # {} /\ onDidChangeTextDocument(f, c)) =>
              /\ f \in DOMAIN fileTokenCache'
              /\ fileTokenCache'[f] = TokenMap(Ext(f), doc'[f], Ids)]_vars

\* C35: after every operation of the FileTokenManager (scanFileTokens,
\* onConfigCacheUpdated, refreshAllTokens, clearFileCache) a file has a stored
\* content fingerprint if and only if it has a TokenRecord.
C35_FingerprintIffRecord == DOMAIN fileHashCache = DOMAIN fileTokenCache

\* ------------------------------------------------------------------------
\* The extension right after m.lua has been closed while a trigger for it
\* was waiting: refreshCaches is in flight, triggerUpdateDecorations(m.lua)
\* is suspended in waitForCacheRefresh, and the close has removed what was
\* kept for the file; m.lua is neither opened nor triggered again
\* ------------------------------------------------------------------------

InitAfterClose ==
    /\ disk = [f \in FileSet |-> InitialContent(f)]
    /\ doc = <<>>
    /\ sectionCache = <<>>
    /\ iniHashCache = <<>>
    /\ lastScanTime = 0
    /\ fileTokenCache = <<>>
    /\ fileHashCache = <<>>
    /\ isRefreshing = TRUE
    /\ refreshQueue = <<>>
    /\ refreshPromise = 1
    /\ isDecorationUpdating = FALSE
    /\ tasks = [t \in Tasks |->
                   IF t = 1 THEN Task("refreshCaches", "scanAllSections", NoFile, 0, 0)
                   ELSE IF t = 2 THEN Task("trigger", "awaitRefresh", FL, 0, 1)
                   ELSE Free]
    /\ activeEditor = NoFile
    /\ decorations = <<>>
    /\ fileTimeouts = <<>>
    /\ picker = NoPicker
    /\ editorView = <<>>
    /\ chunkCache = <<>>
    /\ visibleChunks = <<>>

NextAfterClose ==
    \/ Internal
    \/ CallRefreshCaches
    \/ \E f \in IniFiles : CallRefreshIniFile(f)
    \/ onDidChangeActiveTextEditor(FA)
    \/ triggerUpdateDecorations(FA)
    \/ \E f \in Editors : DebounceFires(f)
    \/ \E f \in Editors : onDidCloseTextDocument(f)

SpecAfterClose == InitAfterClose /\ [][NextAfterClose]_vars

\* C36: once a file has been closed, no render of it is performed and no
\* per-file decoration state (cached ranges, chunks, active chunk set, timer)
\* is created for it again as long as it is neither opened nor triggered
\* again, even when a triggerUpdateDecorations call for it was waiting for the
\* refresh in flight at the time of the close.
C36_ClosedStaysClean ==
    /\ FL \notin DOMAIN fileTimeouts
    /\ FL \notin DOMAIN decorations
    /\ FL \notin DOMAIN chunkCache /\ FL \notin DOMAIN visibleChunks

\* the promise a triggerUpdateDecorations call returned is resolved by the
\* callback of the timer that call set (or by the catch of checkAndUpdate) and
\* by nothing else: a timer that stops being pending without having fired
\* leaves its promise unresolved for good
TimerDropped(f) ==
    /\ f \in DOMAIN fileTimeouts
    /\ f \notin DOMAIN fileTimeouts'
    /\ ~DebounceFires(f)

\* C37: every promise returned by triggerUpdateDecorations eventually
\* resolves, also when its pending timer is cancelled by the close of the
\* file: no pending timer is given up before its callback has run.
C37_PromisesResolve ==
    [][\A f \in Editors : ~TimerDropped(f)]_vars

\* C38: for a file of more than 5000 lines with a non-empty visible range,
\* every line from the first visible line to the last visible line lies in a
\* chunk of the active chunk set getSmartVisibleRange returns, under the cap
\* as well as after the set has been re-centered and truncated.
C38_VisibleLinesCovered ==
    \A f \in DOMAIN editorView :
        LET view == editorView[f]
        IN  (isUltraLargeFile(view) /\ view.visible # <<>>) =>
                \A line \in view.visible[1]..view.visible[2] :
                    \E c \in getSmartVisibleRange(view).chunks :
                        c * CHUNK_SIZE <= line /\ line < (c + 1) * CHUNK_SIZE

\* ------------------------------------------------------------------------
\* ConfigSectionManager.findMatchingSectionAtPosition
\* ------------------------------------------------------------------------

\* the offsets of the occurrences of sectionId in text whose range contains
\* the column (Range.contains takes the end position in)
HitsAt(text, sectionId, character) ==
    {k \in 0..(Len(text) - Len(sectionId)) :
        /\ OccursAt(text, sectionId, k)
        /\ k <= character /\ character <= k + Len(sectionId)}

\* sectionIds.sort((a, b) => b.length - a.length) of the keys of the section
\* cache: entry i comes before entry j
SortsBefore(sections, i, j) ==
    \/ Len(sections[i].id) > Len(sections[j].id)
    \/ Len(sections[i].id) = Len(sections[j].id) /\ i < j

NoMatch == [sectionId |-> <<>>, range |-> <<>>]

\* findMatchingSectionAtPosition(doc, pos): the first id, longest first, with
\* an occurrence on the line of pos whose range contains pos, and the first
\* such occurrence
findMatchingSectionAtPosition(sections, lines, line, character) ==
    LET text == lines[line + 1]
        found == {k \in 1..Len(sections) : HitsAt(text, sections[k].id, character) # {}}
    IN  IF found = {} THEN NoMatch
        ELSE LET k == CHOOSE i \in found : \A j \in found \ {i} : SortsBefore(sections, i, j)
                 hits == HitsAt(text, sections[k].id, character)
                 foundIndex == CHOOSE h \in hits : \A m \in hits : h <= m
             IN  [sectionId |-> sections[k].id,
                  range |-> <<line, foundIndex, foundIndex + Len(sections[k].id)>>]

\* the TokenRecord of f is the scan of what f holds against the known ids
RecordCurrent(f) ==
    /\ IndexedAsIs(f)
    /\ f \in DOMAIN fileTokenCache
    /\ fileTokenCache[f] = TokenMap(Ext(f), disk[f], Ids)

\* the ranges getFileTokens(f) has for id
RecordedFor(f, id) ==
    IF id \in DOMAIN fileTokenCache[f]
    THEN {fileTokenCache[f][id][k] : k \in 1..Len(fileTokenCache[f][id])}
    ELSE {}

\* C39: when the coordinator is Idle and the TokenRecord of a file is current,
\* findMatchingSectionAtPosition returns an id and a range only if that range
\* is recorded for that id in the TokenRecord of the file, and returns
\* nothing at a position no recorded range covers.
C39_HoverAgreesWithTokens ==
    Idle => \A f \in FileSet :
                RecordCurrent(f) =>
                    \A i \in 1..Len(disk[f]) : \A character \in 0..Len(disk[f][i]) :
                        LET m == findMatchingSectionAtPosition(sectionCache, disk[f],
                                                               i - 1, character)
                        IN  m # NoMatch => m.range \in RecordedFor(f, m.sectionId)

\* ------------------------------------------------------------------------
\* The earlier revision src/src/extension.ts: a ConfigSectionManager that
\* rescans every ini file at most once in five seconds, and an
\* IniSectionDecorationProvider with one timer for all editors (kept in
\* fileTimeouts as the editor its callback will render).  The editors that
\* are visible are those of editorView; each has been rendered once
\* ------------------------------------------------------------------------

\* scanAllSections, the lines of one file from line i: sectionCache.set(id,
\* Location(uri, line))
RECURSIVE OldParseFrom(_, _, _, _)
OldParseFrom(cache, uri, lines, i) ==
    IF i > Len(lines) THEN cache
    ELSE IF IsHeader(lines[i])
         THEN Let(LAMBDA set : OldParseFrom(set, uri, lines, i + 1),
                  MapSet(cache, [id |-> HeaderId(lines[i]), uri |-> uri,
                                 line |-> i - 1, content |-> <<>>]))
         ELSE OldParseFrom(cache, uri, lines, i + 1)

RECURSIVE OldScanUris(_, _, _)
OldScanUris(cache, uris, d) ==
    IF uris = <<>> THEN cache
    ELSE Let(LAMBDA scanned : OldScanUris(scanned, Tail(uris), d),
             OldParseFrom(cache, Head(uris), d[Head(uris)], 1))

\* scanAllSections does nothing within five seconds of lastScanTime
ScanSkipped(last, elapsed) == last # 0 /\ ~elapsed

\* scanAllSections: the cache is cleared and every ini file is parsed
OldScanAllSections(cache, last, elapsed, d) ==
    IF ScanSkipped(last, elapsed) THEN cache
    ELSE OldScanUris(<<>>, FindFiles("ini", d), d)

\* editor.document.getText()
EditorText(f) == IF f \in DOMAIN doc THEN doc[f] ELSE disk[f]

\* the ranges updateDecorations gives to setDecorations
OldRanges(sections, f) ==
    AllRanges(TokenMap(Ext(f), EditorText(f), getAllSectionIds(sections)))

\* updateDecorations(editor) after its scanAllSections: nothing without ids
OldUpdateDecorations(decos, sections, f) ==
    IF getAllSectionIds(sections) = {} THEN decos
    ELSE (f :> OldRanges(sections, f)) @@ decos

\* triggerUpdateDecorations(editor): clearTimeout(this.timeout), then
\* this.timeout = setTimeout(() => this.updateDecorations(editor), 100)
OldTrigger(timeouts, f) == (f :> 1)

\* vscode.window.visibleTextEditors (every modelled file is a relevant file)
visibleTextEditors == SelectSeq(Files, LAMBDA f : f \in DOMAIN editorView)

\* visibleTextEditors.forEach(editor => triggerUpdateDecorations(editor))
RECURSIVE OldTriggerAll(_, _)
OldTriggerAll(timeouts, editors) ==
    IF editors = <<>> THEN timeouts
    ELSE OldTriggerAll(OldTrigger(timeouts, Head(editors)), Tail(editors))

InitOld ==
    /\ disk = [f \in FileSet |-> InitialContent(f)]
    /\ doc = [f \in ScriptFiles |-> InitialContent(f)]
    /\ sectionCache = OldScanUris(<<>>, FindFiles("ini", disk), disk)
    /\ iniHashCache = <<>>
    /\ lastScanTime = 1
    /\ fileTokenCache = <<>>
    /\ fileHashCache = <<>>
    /\ isRefreshing = FALSE
    /\ refreshQueue = <<>>
    /\ refreshPromise = 0
    /\ isDecorationUpdating = FALSE
    /\ tasks = [t \in Tasks |-> Free]
    /\ \E shown \in SUBSET FileSet \ {{}} :
          /\ editorView = [f \in shown |->
                              [lineCount |-> Len(disk[f]), visible |-> <<0, Len(disk[f]) - 1>>]]
          /\ activeEditor \in shown
          /\ decorations = [f \in shown |-> OldRanges(sectionCache, f)]
    /\ fileTimeouts = <<>>
    /\ picker = NoPicker
    /\ chunkCache = <<>>
    /\ visibleChunks = <<>>

\* onDidSaveTextDocument of an ini file saved with content c: lastScanTime = 0
\* and a trigger for every visible editor
OldSave(f, c) ==
    /\ disk' = [disk EXCEPT ![f] = c]
    /\ lastScanTime' = 0
    /\ fileTimeouts' = OldTriggerAll(fileTimeouts, visibleTextEditors)
    /\ UNCHANGED <<doc, sectionCache, iniHashCache, tokVars, isRefreshing, refreshQueue,
                   refreshPromise, isDecorationUpdating, tasks, activeEditor,
                   decorations, picker, viewVars>>

\* the timer fires: updateDecorations(editor), with five seconds gone since
\* the last scan or not
OldTimeoutFires(f, elapsed) ==
    /\ f \in DOMAIN fileTimeouts
    /\ fileTimeouts' = <<>>
    /\ sectionCache' = OldScanAllSections(sectionCache, lastScanTime, elapsed, disk)
    /\ lastScanTime' = IF ScanSkipped(lastScanTime, elapsed) THEN lastScanTime ELSE 1
    /\ decorations' = OldUpdateDecorations(decorations, sectionCache', f)
    /\ UNCHANGED <<envVars, iniHashCache, tokVars, isRefreshing, refreshQueue,
                   refreshPromise, isDecorationUpdating, tasks, activeEditor,
                   picker, viewVars>>

\* onDidChangeActiveTextEditor: a trigger for the editor
OldActiveEditorChanged(f) ==
    /\ f \in DOMAIN editorView
    /\ activeEditor' = f
    /\ fileTimeouts' = OldTrigger(fileTimeouts, f)
    /\ UNCHANGED <<envVars, idxVars, isRefreshing, refreshQueue, refreshPromise,
                   isDecorationUpdating, tasks, decorations, picker, viewVars>>

OldTimers == \E f \in FileSet : \E elapsed \in BOOLEAN : OldTimeoutFires(f, elapsed)

NextOld ==
    \/ \E f \in IniFiles : \E c \in Contents(f) : OldSave(f, c)
    \/ OldTimers
    \/ \E f \in FileSet : OldActiveEditorChanged(f)

\* the host runs the callback of a timer that is due
SpecOld == InitOld /\ [][NextOld]_vars /\ WF_vars(OldTimers)

\* the highlights of the editor of f are not those of its text against the
\* section headers the ini files now have
Stale(f) ==
    (IF f \in DOMAIN decorations THEN decorations[f] ELSE {}) #
        OldRanges(OldScanUris(<<>>, FindFiles("ini", disk), disk), f)

\* from some point on nothing is saved and no editor is activated: the only
\* steps left are those of the timer
NoLaterEvents == <>[][OldTimers]_vars

\* C40: in src/src/extension.ts, after the save of an ini file every visible
\* editor eventually has updateDecorations run for it: an editor whose
\* highlights the save has made out of date is eventually rendered again, not
\* only the last editor a trigger was issued for.
C40_SaveUpdatesAllEditors ==
    NoLaterEvents =>
        \A f \in FileSet : (f \in DOMAIN editorView /\ Stale(f)) ~> ~Stale(f)

====
